---- MODULE Spec2Model ----
(***************************************************************************)
(* Name matching and reconciliation engine of the Schemini manager:        *)
(* WebScanManager (web_scan_manager.py), WebBaseManager                    *)
(* (web_base_manager.py) and the persisted search index of                 *)
(* WebSettingsManager (web_settings_manager.py).                           *)
(*                                                                         *)
(* A file name is a sequence of symbols.  Every symbol is one character,   *)
(* except ".pdf" / ".PDF", which stand for the four characters of the      *)
(* extension; no other symbol contains '.', 'p', 'd' or 'f', so            *)
(* str.endswith('.pdf') is "the last symbol is .pdf".                      *)
(***************************************************************************)
EXTENDS Integers, Sequences, FiniteSets, TLC

\* ------------------------------------------------------------------ bounds
MaxPatLen == 4
MaxRef == 2
MaxTargets == 2

MaxUploads == 2

MaxSections == 2

\* ------------------------------------------------------------ file names
Symbols == {"i", "I", "a", "A", "_", "1", ".pdf", ".PDF"}

Digits == {"1"}

\* str.lower() on one symbol
LowerSym(c) ==
  CASE c = "I" -> "i"
    [] c = "A" -> "a"
    [] c = ".PDF" -> ".pdf"
    [] OTHER -> c

\* str.lower()
Lower(s) == [k \in 1..Len(s) |-> LowerSym(s[k])]

\* number of characters of one symbol
SymLen(c) == IF c \in {".pdf", ".PDF"} THEN 4 ELSE 1

\* len(str)
RECURSIVE CharLen(_)
CharLen(s) == IF s = <<>> THEN 0 ELSE SymLen(Head(s)) + CharLen(Tail(s))

\* str.startswith('i')
StartsWithI(s) == Len(s) >= 1 /\ s[1] = "i"

\* str.endswith('.pdf')
EndsWithPdf(s) == Len(s) >= 1 /\ s[Len(s)] = ".pdf"

\* number of digit characters at the very end of s
RECURSIVE TrailingDigits(_)
TrailingDigits(s) ==
  IF Len(s) >= 1 /\ s[Len(s)] \in Digits
    THEN 1 + TrailingDigits(SubSeq(s, 1, Len(s) - 1))
    ELSE 0

\* re.sub(r'_\d+$', '', s): one trailing "_<digits>" run is removed
StripNumSuffix(s) ==
  LET k == TrailingDigits(s)
  IN IF k >= 1 /\ Len(s) > k /\ s[Len(s) - k] = "_"
       THEN SubSeq(s, 1, Len(s) - k - 1)
       ELSE s

\* a plausible slip: the leading 'i' is dropped without the length guard
extract_file_pattern_noguard(filename) ==
  LET n0 == Lower(filename)
      n1 == IF EndsWithPdf(n0) THEN SubSeq(n0, 1, Len(n0) - 1) ELSE n0
      n2 == StripNumSuffix(n1)
  IN IF StartsWithI(n2) THEN Tail(n2) ELSE n2

\* WebScanManager.extract_file_pattern
extract_file_pattern(filename) ==
  LET n0 == Lower(filename)
      n1 == IF EndsWithPdf(n0) THEN SubSeq(n0, 1, Len(n0) - 1) ELSE n0
      n2 == StripNumSuffix(n1)
  IN IF StartsWithI(n2) /\ CharLen(n2) > 1 THEN Tail(n2) ELSE n2

\* a plausible slip: the leading 'i' is kept in the canonical base name
CanonicalBase_keepI(name) == Lower(name)

\* base_name = name.lower(); if base_name.startswith('i'): base_name = base_name[1:]
CanonicalBase(name) ==
  LET b == Lower(name)
  IN IF StartsWithI(b) THEN Tail(b) ELSE b

\* str.upper() on one symbol
UpperSym(c) ==
  CASE c = "i" -> "I"
    [] c = "a" -> "A"
    [] c = ".pdf" -> ".PDF"
    [] OTHER -> c

\* WebScanManager.format_display_name: (filename or '').upper()
format_display_name(s) == [k \in 1..Len(s) |-> UpperSym(s[k])]

\* x in list
InSeq(x, s) == \E k \in 1..Len(s) : s[k] = x

\* ---------------------------------------------------------------- state
VARIABLES
  pat_pc,        \* position of the pattern driver
  pat_in,        \* a file name handed to extract_file_pattern
  pat_out,       \* extract_file_pattern(pat_in)
  pat_again,     \* extract_file_pattern(pat_out)
  pat_ext,       \* extract_file_pattern(pat_out + '.pdf')
  ref_walk,      \* the files under ana_klasor, in the order os.walk yields them
  scan_sections, \* _selected_sections of the scan
  file_info_list,    \* the target names handed to the scan
  scan_pc,           \* position of the scan worker
  is_cancelled,      \* WebScanManager._is_cancelled
  ana_dosya_isimleri,    \* knownNames
  ana_dosya_mapping,     \* byExactName
  ana_dosya_patterns,    \* byPattern
  scan_i,                \* number of target items already compared
  eslesen_dosyalar,      \* match records of the running scan
  non_matched_files,     \* WebScanManager.non_matched_files
  matched_files,         \* WebScanManager.matched_files
  progress,              \* WebBaseManager.progress
  index_file,    \* search_index.json on disk
  temp_file,     \* search_index.tmp on disk
  index_lock,    \* _index_lock of the WebSettingsManager each caller constructed
  idx_pc,        \* position of each caller inside its index call
  idx_op,        \* which index call the caller makes
  idx_arg,       \* file_path_str of the call
  idx_paths,     \* the call's local all_paths
  idx_fd,        \* the file the call's open write handle refers to
  build_pc,      \* position of _build_index_thread
  build_running, \* indexing_progress['running']
  build_paths,   \* all_paths of _build_index_thread
  read_seen,     \* what the last read of search_index.json by the search returned
  copy_pc,         \* position of the copy thread
  dest_dir,        \* the destination folder: where each file in it came from
  dest_before,     \* the destination folder as the running copy found it
  copyable_files,  \* copyable_files of the running copy
  copy_i,          \* entries of copyable_files already handled
  copied,          \* copied
  errors,          \* errors
  copy_log,        \* the per-entry lines of detay_log
  cancel_called,   \* cancel() was called while the current copy operation ran
  fs_dirs,             \* the directories on disk
  fs_files,            \* the files on disk the placement can meet: path -> content
  files_before,        \* fs_files as the last distribute call found it
  dirs_before,         \* fs_dirs as the last distribute call found it
  place_pc,            \* position of the upload-and-place operation
  place_cancelled,     \* WebFileAddManager._is_cancelled
  place_progress,      \* WebFileAddManager.progress
  ana_klasor,          \* the reference folder of the request
  uploaded_files,      \* original names of the uploaded files
  selected_mix_codes,  \* selected_mix_codes of the request
  selected_sections,   \* selected_sections of the request
  place_i,             \* processed
  place_m,             \* mix codes already handled for the current file
  place_overall,       \* overall
  place_res,            \* what the last distribute_file_to_mix_folders returned
  workers,       \* the scan worker threads that run on the one scan manager
  excel_import_aktif,        \* file-add manager: Excel import mode is on
  manuel_secim_var,          \* file-add manager: manual selection mode is on
  excel_dosya_eslesmeleri,   \* file-add manager: file -> MIX codes of the import
  secili_mix_kodlari,        \* file-add manager: self.selected_mix_codes
  mode_call,                 \* the last mode call and what it returned
  PANDAS_AVAILABLE,          \* file-add manager: pandas could be imported
  builders,      \* the index build threads started so far
  last_completed, \* indexing_progress['last_completed']
  idx_entry,     \* per caller: the persisted list when its call was entered
  idx_hist       \* the index calls that have returned, with the list before and after

patVars == <<pat_pc, pat_in, pat_out, pat_again, pat_ext>>

scanVars == <<ref_walk, scan_sections, file_info_list, scan_pc, is_cancelled, ana_dosya_isimleri,
              ana_dosya_mapping, ana_dosya_patterns, scan_i, eslesen_dosyalar,
              non_matched_files, matched_files, progress>>

idxVars == <<index_file, temp_file, index_lock, idx_pc, idx_op, idx_arg, idx_paths,
             idx_fd, build_pc, build_running, build_paths, read_seen>>

copyVars == <<copy_pc, dest_dir, dest_before, copyable_files, copy_i, copied, errors,
              copy_log, cancel_called>>

placeVars == <<fs_dirs, fs_files, files_before, dirs_before, place_pc, place_cancelled,
               place_progress, ana_klasor, uploaded_files, selected_mix_codes,
               selected_sections, place_i, place_m, place_overall, place_res>>

modeVars == <<excel_import_aktif, manuel_secim_var, excel_dosya_eslesmeleri,
              secili_mix_kodlari, mode_call, PANDAS_AVAILABLE>>

buildVars == <<builders, last_completed>>

histVars == <<idx_entry, idx_hist>>

moreVars == <<workers, modeVars, buildVars, histVars>>

vars == <<patVars, scanVars, idxVars, copyVars, placeVars, moreVars>>

\* the scan manager as WebScanManager.__init__ leaves it; NoValue stands for a key
\* the progress dict does not hold yet
NoValue == "none"

ProgressInit ==
  [percentage |-> 0, current |-> 0, total |-> 0, status |-> "Ready",
   completed |-> FALSE, error |-> NoValue, scan_mode |-> NoValue,
   report_file |-> NoValue,
   total_scanned |-> NoValue, matched_groups |-> NoValue, matched_total |-> NoValue,
   non_matched_count |-> NoValue, match_percentage |-> NoValue]

ScanIdle ==
  /\ ref_walk = <<>>
  /\ scan_sections = <<>>
  /\ file_info_list = <<>>
  /\ scan_pc = "off"
  /\ is_cancelled = FALSE
  /\ ana_dosya_isimleri = {}
  /\ ana_dosya_mapping = <<>>
  /\ ana_dosya_patterns = <<>>
  /\ scan_i = 0
  /\ eslesen_dosyalar = <<>>
  /\ non_matched_files = <<>>
  /\ matched_files = <<>>
  /\ progress = ProgressInit

PatIdle ==
  /\ pat_pc = "off"
  /\ pat_in = <<>>
  /\ pat_out = <<>>
  /\ pat_again = <<>>
  /\ pat_ext = <<>>

\* the files search_index.json / search_index.tmp: text is "json" for a complete
\* JSON array of paths, "empty" for a file of length 0 and "broken" for text that
\* json.loads rejects (a flushed prefix, or one array written over a longer one)
NoFile == [exists |-> FALSE, paths |-> <<>>, text |-> "empty"]

Callers == {"t1", "t2"}

NotRead == [result |-> "none", paths |-> <<>>]

\* no index operation in progress
IdxIdle ==
  /\ index_file = NoFile
  /\ temp_file = NoFile
  /\ index_lock = [t \in Callers |-> FALSE]
  /\ idx_pc = [t \in Callers |-> "off"]
  /\ idx_op = [t \in Callers |-> NoValue]
  /\ idx_arg = [t \in Callers |-> NoValue]
  /\ idx_paths = [t \in Callers |-> <<>>]
  /\ idx_fd = [t \in Callers |-> "none"]
  /\ build_pc = "off"
  /\ build_running = FALSE
  /\ build_paths = <<>>
  /\ read_seen = NotRead

\* no copy operation in progress, no destination folder
CopyIdle ==
  /\ copy_pc = "off"
  /\ dest_dir = <<>>
  /\ dest_before = <<>>
  /\ copyable_files = <<>>
  /\ copy_i = 0
  /\ copied = 0
  /\ errors = 0
  /\ copy_log = <<>>
  /\ cancel_called = FALSE

NoResult == [success |-> FALSE, error |-> NoValue, targets_found |-> 0, files_copied |-> 0,
             dirs_created |-> 0, exists |-> 0, errors |-> 0, details |-> <<>>,
             subkey |-> <<>>, filename |-> <<>>, mix_code |-> NoValue]

OverallInit == [total_copies |-> 0, total_dirs_created |-> 0, total_errors |-> 0,
                total_exists |-> 0]

\* the file-add manager as __init__ leaves it, no second scan worker, no index build
NoCall == [call |-> NoValue, success |-> TRUE, error |-> NoValue]

MoreIdle ==
  /\ workers = <<>>
  /\ excel_import_aktif = FALSE
  /\ manuel_secim_var = FALSE
  /\ excel_dosya_eslesmeleri = <<>>
  /\ secili_mix_kodlari = {}
  /\ mode_call = NoCall
  /\ PANDAS_AVAILABLE = TRUE
  /\ builders = <<>>
  /\ last_completed = NoValue
  /\ idx_entry = [t \in Callers |-> <<>>]
  /\ idx_hist = <<>>

\* no placement in progress, no tree
PlaceIdle ==
  /\ fs_dirs = {}
  /\ fs_files = <<>>
  /\ files_before = <<>>
  /\ dirs_before = {}
  /\ place_pc = "off"
  /\ place_cancelled = FALSE
  /\ place_progress = ProgressInit
  /\ ana_klasor = <<>>
  /\ uploaded_files = <<>>
  /\ selected_mix_codes = <<>>
  /\ selected_sections = <<>>
  /\ place_i = 0
  /\ place_m = 0
  /\ place_overall = OverallInit
  /\ place_res = NoResult

\* --------------------------------------------------- pattern function
PatNames == UNION {[1..k -> Symbols] : k \in 1..MaxPatLen}

PatInit ==
  /\ MoreIdle
  /\ PlaceIdle
  /\ ScanIdle
  /\ IdxIdle
  /\ CopyIdle
  /\ pat_pc = "input"
  /\ pat_in \in PatNames
  /\ pat_out = <<>>
  /\ pat_again = <<>>
  /\ pat_ext = <<>>

ApplyPattern ==
  /\ pat_pc = "input"
  /\ pat_out' = extract_file_pattern(pat_in)
  /\ pat_pc' = "once"
  /\ UNCHANGED <<pat_in, pat_again, pat_ext, scanVars, idxVars, copyVars, placeVars, moreVars>>

ReapplyPattern ==
  /\ pat_pc = "once"
  /\ pat_again' = extract_file_pattern(pat_out)
  /\ pat_ext' = extract_file_pattern(pat_out \o <<".pdf">>)
  /\ pat_pc' = "twice"
  /\ UNCHANGED <<pat_in, pat_out, scanVars, idxVars, copyVars, placeVars, moreVars>>

PatNext == ApplyPattern \/ ReapplyPattern

SpecPattern == PatInit /\ [][PatNext]_vars

\* ------------------------------------------------------ reference index
Dirs == {"d1", "d2"}

\* the file names that occur in the reference tree and in target lists
ScanNames ==
  { <<"a">>, <<"I", "a">>, <<"i", "i", "a">>, <<"A", "_", "1", ".pdf">> }

\* a file of the reference tree: its directory and its name (a resolved path)
RefFiles == [dir : Dirs, name : ScanNames]

\* sequences of distinct elements of S, of length at most n
DistinctSeqs(S, n) ==
  UNION { { q \in [1..k -> S] : \A x, y \in 1..k : x # y => q[x] # q[y] } : k \in 0..n }

\* os.walk over the reference tree: every file once, in an order the file system picks
RefWalks == DistinctSeqs(RefFiles, MaxRef)

TargetLists == UNION {[1..k -> ScanNames] : k \in 0..MaxTargets}

\* dict[key].append(p), creating the list when the key is new
AppendAt(m, key, p) ==
  IF key \in DOMAIN m THEN [m EXCEPT ![key] = Append(@, p)] ELSE (key :> <<p>>) @@ m

\* the loop of _index_main_folder_fast over the files the walk yields
RECURSIVE IndexFold(_, _)
IndexFold(walk, acc) ==
  IF walk = <<>> THEN acc
  ELSE LET p == Head(walk)
           name_lower == Lower(p.name)
           pattern == extract_file_pattern(p.name)
       IN IndexFold(Tail(walk),
            [isimleri |-> acc.isimleri \cup {name_lower},
             mapping |-> AppendAt(acc.mapping, name_lower, p),
             patterns |-> AppendAt(acc.patterns, pattern, p),
             total_files |-> acc.total_files + 1])

\* the directories a section list of a scan can name: d1 and d2 lie under the
\* reference root, r2 and x1 exist beside it, d9 does not exist
SectionNames == {"d1", "d2", "r2", "d9", "x1"}

ExistingDirs == {"d1", "d2", "r2", "x1"}

\* ana_klasor_path.resolve().as_posix()
RefRootPosix == <<"R">>

\* sp.resolve().as_posix()
as_posix(sp) ==
  CASE sp = "d1" -> <<"R", "/", "d", "1">>
    [] sp = "d2" -> <<"R", "/", "d", "2">>
    [] sp = "d9" -> <<"R", "/", "d", "9">>
    [] sp = "r2" -> <<"R", "2">>
    [] OTHER -> <<"X", "1">>

\* str.startswith
StartsWith(str, prefix) ==
  Len(str) >= Len(prefix) /\ SubSeq(str, 1, Len(prefix)) = prefix

\* the test a section has to pass in _scan_filenames_thread
SectionValid(sp) ==
  sp \in ExistingDirs /\ StartsWith(as_posix(sp), RefRootPosix)

\* section_paths: the sections that passed, in the order given
SectionPaths(sections) == SelectSeq(sections, SectionValid)

RootBase == "root"

\* the file lies below the base path
UnderBase(file, base) ==
  IF base = RootBase THEN file.dir \in Dirs ELSE file.dir = base

\* _fast_iter_files: the bases one after the other, each walked in the order
\* the file system gives
RECURSIVE fast_iter_files(_, _)
fast_iter_files(walk, bases) ==
  IF bases = <<>> THEN <<>>
  ELSE SelectSeq(walk, LAMBDA file : UnderBase(file, Head(bases)))
         \o fast_iter_files(walk, Tail(bases))

\* WebScanManager._index_main_folder_fast: the sections when there are any,
\* the reference root otherwise
index_main_folder_fast(walk, section_paths) ==
  LET bases == IF section_paths # <<>> THEN section_paths ELSE <<RootBase>>
  IN IndexFold(fast_iter_files(walk, bases),
               [isimleri |-> {}, mapping |-> <<>>, patterns |-> <<>>, total_files |-> 0])

\* ---------------------------------------------------------- match engine
NoMatches ==
  [all_matches |-> <<>>, match_types |-> <<>>, match_locations |-> <<>>,
   matched_base_names |-> {}]

\* one strategy's loop: every candidate whose canonical base name and path are new
\* is appended with the strategy's type
RECURSIVE Gather(_, _, _)
Gather(acc, cands, mtype) ==
  IF cands = <<>> THEN acc
  ELSE LET file_path == Head(cands)
           base_name == CanonicalBase(file_path.name)
           acc2 == IF base_name \notin acc.matched_base_names
                      /\ ~InSeq(file_path, acc.match_locations)
                     THEN [all_matches |-> Append(acc.all_matches, file_path.name),
                           match_types |-> Append(acc.match_types, mtype),
                           match_locations |-> Append(acc.match_locations, file_path),
                           matched_base_names |-> acc.matched_base_names \cup {base_name}]
                     ELSE acc
       IN Gather(acc2, Tail(cands), mtype)

\* the candidate list of each strategy for one lowercased target name
ExactCands(name_lower, isimleri, mapping) ==
  IF name_lower \in isimleri /\ name_lower \in DOMAIN mapping
    THEN mapping[name_lower] ELSE <<>>

IRemovedCands(name_lower, isimleri, mapping) ==
  IF StartsWithI(name_lower) /\ Tail(name_lower) \in isimleri
     /\ Tail(name_lower) \in DOMAIN mapping
    THEN mapping[Tail(name_lower)] ELSE <<>>

\* a plausible slip: the prefix is added in upper case, as the files carry it
IAddedCands_upper(name_lower, isimleri, mapping) ==
  LET i_prefixed_name == <<"I">> \o name_lower
  IN IF i_prefixed_name \in isimleri /\ i_prefixed_name \in DOMAIN mapping
       THEN mapping[i_prefixed_name] ELSE <<>>

IAddedCands(name_lower, isimleri, mapping) ==
  LET i_prefixed_name == <<"i">> \o name_lower
  IN IF i_prefixed_name \in isimleri /\ i_prefixed_name \in DOMAIN mapping
       THEN mapping[i_prefixed_name] ELSE <<>>

\* a plausible slip: the first file of the pattern's list is skipped
PatternCands_skipFirst(target_pattern, patterns) ==
  IF target_pattern \in DOMAIN patterns THEN Tail(patterns[target_pattern]) ELSE <<>>

PatternCands(target_pattern, patterns) ==
  IF target_pattern \in DOMAIN patterns THEN patterns[target_pattern] ELSE <<>>

\* a plausible slip: the pattern lookup runs before the name lookups
GatherAll_patternFirst(filename, isimleri, mapping, patterns) ==
  LET name_lower == Lower(filename)
      target_pattern == extract_file_pattern(filename)
      g0 == Gather(NoMatches, PatternCands(target_pattern, patterns), "PATTERN")
      g1 == Gather(g0, ExactCands(name_lower, isimleri, mapping), "EXACT")
      g2 == Gather(g1, IRemovedCands(name_lower, isimleri, mapping), "I-PREFIX REMOVED")
  IN Gather(g2, IAddedCands(name_lower, isimleri, mapping), "I-PREFIX ADDED")

\* the four lookups of one target item, in the order the loop body runs them
GatherAll(filename, isimleri, mapping, patterns) ==
  LET name_lower == Lower(filename)
      target_pattern == extract_file_pattern(filename)
      g1 == Gather(NoMatches, ExactCands(name_lower, isimleri, mapping), "EXACT")
      g2 == Gather(g1, IRemovedCands(name_lower, isimleri, mapping), "I-PREFIX REMOVED")
      g3 == Gather(g2, IAddedCands(name_lower, isimleri, mapping), "I-PREFIX ADDED")
  IN Gather(g3, PatternCands(target_pattern, patterns), "PATTERN")

\* the second pass over match_locations: first entry of every canonical base name
RECURSIVE UniqueFold(_, _, _)
UniqueFold(g, k, acc) ==
  IF k > Len(g.match_locations) THEN acc
  ELSE LET base_name == CanonicalBase(g.match_locations[k].name)
       IN IF base_name \notin acc.unique_base_names
            THEN UniqueFold(g, k + 1,
                   [unique_base_names |-> acc.unique_base_names \cup {base_name},
                    unique_match_locations |->
                      Append(acc.unique_match_locations, g.match_locations[k]),
                    unique_match_types |-> Append(acc.unique_match_types, g.match_types[k]),
                    unique_matched_names |->
                      Append(acc.unique_matched_names, g.all_matches[k])])
            ELSE UniqueFold(g, k + 1, acc)

\* the match record appended to eslesen_dosyalar for a matched target
MatchRecord(filename, g) ==
  LET u == UniqueFold(g, 1, [unique_base_names |-> {}, unique_match_locations |-> <<>>,
                             unique_match_types |-> <<>>, unique_matched_names |-> <<>>])
  IN [target_name |-> format_display_name(filename),
      target_file |-> [marker |-> "(filename-only)", name |-> filename],
      matched_with |-> [k \in 1..Len(u.unique_matched_names) |->
                          format_display_name(u.unique_matched_names[k])],
      match_types |-> u.unique_match_types,
      match_locations |-> u.unique_match_locations,
      match_count |-> Len(u.unique_matched_names)]

\* self.matched_files: the resolved path of every match location not yet listed
RECURSIVE AddMatchedFiles(_, _)
AddMatchedFiles(files, locs) ==
  IF locs = <<>> THEN files
  ELSE AddMatchedFiles(IF InSeq(Head(locs), files) THEN files ELSE Append(files, Head(locs)),
                       Tail(locs))

\* 'path': '(filename-only)': the entry names no file on disk
NoSourcePath == [dir |-> "(filename-only)", name |-> <<>>]

\* the entry appended to non_matched_files for a target without a match
NonMatchedEntry(filename) ==
  [name |-> format_display_name(filename), path |-> NoSourcePath]

\* unique_target_files: the canonical base names of the matched targets
UniqueTargetFiles(records) ==
  { CanonicalBase(records[k].target_file.name) : k \in 1..Len(records) }

RECURSIVE SumMatchTypes(_)
SumMatchTypes(records) ==
  IF records = <<>> THEN 0
  ELSE Len(Head(records).match_types) + SumMatchTypes(Tail(records))

Max(a, b) == IF a >= b THEN a ELSE b

\* int((unique / max(1, total)) * 100) if total > 0 else 0
MatchPercentage(unique_matched_files, target_files_count) ==
  IF target_files_count > 0
    THEN (unique_matched_files * 100) \div Max(1, target_files_count)
    ELSE 0

\* ------------------------------------------------------- scan operation
ScanReady ==
  /\ ref_walk \in RefWalks
  /\ scan_sections = <<>>
  /\ file_info_list \in TargetLists
  /\ scan_pc = "idle"
  /\ is_cancelled = FALSE
  /\ ana_dosya_isimleri = {}
  /\ ana_dosya_mapping = <<>>
  /\ ana_dosya_patterns = <<>>
  /\ scan_i = 0
  /\ eslesen_dosyalar = <<>>
  /\ non_matched_files = <<>>
  /\ matched_files = <<>>
  /\ progress = ProgressInit

ScanInit ==
  /\ MoreIdle
  /\ PlaceIdle
  /\ PatIdle
  /\ IdxIdle
  /\ CopyIdle
  /\ ScanReady

\* WebBaseManager.clear_logs: the progress fields it resets (the metrics stay)
clear_logs(p) ==
  [p EXCEPT !.percentage = 0, !.current = 0, !.total = 0, !.status = "Ready",
            !.completed = FALSE, !.error = NoValue, !.scan_mode = NoValue,
            !.report_file = NoValue]

\* WebBaseManager.set_error
set_error(p, msg) == [p EXCEPT !.error = msg, !.status = "Error"]

\* WebBaseManager.set_completed
set_completed(p) == [p EXCEPT !.completed = TRUE, !.status = "Completed", !.percentage = 100]

\* WebBaseManager.create_log_file: the report is written, or writing it fails
create_log_file(p, ok) ==
  IF ok THEN [p EXCEPT !.report_file = "filename_scan.log"]
  ELSE set_error(p, "Log file could not be created")

\* scan_filenames_only: reset the manager and start the worker thread
scan_filenames_only ==
  /\ scan_pc = "idle"
  /\ progress' = clear_logs(progress)
  /\ is_cancelled' = FALSE
  /\ scan_pc' = "started"
  /\ UNCHANGED <<ref_walk, scan_sections, file_info_list, ana_dosya_isimleri, ana_dosya_mapping,
                 ana_dosya_patterns, scan_i, eslesen_dosyalar, non_matched_files,
                 matched_files, patVars, idxVars, copyVars, placeVars, moreVars>>

\* _scan_filenames_thread up to the comparison loop: index the reference tree and
\* empty the result lists
ScanIndex ==
  /\ scan_pc = "started"
  /\ LET idx == index_main_folder_fast(ref_walk, SectionPaths(scan_sections))
     IN /\ ana_dosya_isimleri' = idx.isimleri
        /\ ana_dosya_mapping' = idx.mapping
        /\ ana_dosya_patterns' = idx.patterns
  /\ non_matched_files' = <<>>
  /\ matched_files' = <<>>
  /\ eslesen_dosyalar' = <<>>
  /\ scan_i' = 0
  /\ progress' = [progress EXCEPT !.scan_mode = "filenames_only", !.percentage = 10,
                                  !.current = 0, !.total = Len(file_info_list),
                                  !.status = "Starting filename comparison..."]
  /\ scan_pc' = "compare"
  /\ UNCHANGED <<ref_walk, scan_sections, file_info_list, is_cancelled, patVars, idxVars, copyVars, placeVars, moreVars>>

\* one iteration of the comparison loop
CompareItem ==
  /\ scan_pc = "compare"
  /\ scan_i < Len(file_info_list)
  /\ ~is_cancelled
  /\ LET toplam == Len(file_info_list)
         filename == file_info_list[scan_i + 1]
         g == GatherAll(filename, ana_dosya_isimleri, ana_dosya_mapping, ana_dosya_patterns)
     IN /\ progress' = [progress EXCEPT
                          !.percentage = (((scan_i + 1) * 80) \div Max(1, toplam)) + 10,
                          !.current = scan_i + 1, !.total = toplam,
                          !.status = "Comparing"]
        /\ IF g.match_locations # <<>>
             THEN /\ eslesen_dosyalar' = Append(eslesen_dosyalar, MatchRecord(filename, g))
                  /\ matched_files' = AddMatchedFiles(matched_files, g.match_locations)
                  /\ UNCHANGED non_matched_files
             ELSE /\ non_matched_files' = Append(non_matched_files, NonMatchedEntry(filename))
                  /\ UNCHANGED <<eslesen_dosyalar, matched_files>>
  /\ scan_i' = scan_i + 1
  /\ UNCHANGED <<ref_walk, scan_sections, file_info_list, scan_pc, is_cancelled, ana_dosya_isimleri,
                 ana_dosya_mapping, ana_dosya_patterns, patVars, idxVars, copyVars, placeVars, moreVars>>

\* after the loop: statistics, report file, set_completed, metrics written again
ScanFinalize ==
  /\ scan_pc = "compare"
  /\ scan_i = Len(file_info_list)
  /\ \E log_ok \in BOOLEAN :
       LET target_files_count == Len(file_info_list)
           unique_matched_files == Cardinality(UniqueTargetFiles(eslesen_dosyalar))
           total_individual_matches == SumMatchTypes(eslesen_dosyalar)
           match_percentage == MatchPercentage(unique_matched_files, target_files_count)
           non_matched_count == Len(non_matched_files)
           p1 == [progress EXCEPT !.percentage = 95,
                                  !.status = "Finalizing filename-only results...",
                                  !.total_scanned = target_files_count,
                                  !.matched_groups = unique_matched_files,
                                  !.matched_total = total_individual_matches,
                                  !.non_matched_count = non_matched_count,
                                  !.match_percentage = match_percentage,
                                  !.scan_mode = "filenames_only"]
           p2 == create_log_file(p1, log_ok)
       IN progress' = set_completed(p2)
  /\ scan_pc' = "done"
  /\ UNCHANGED <<ref_walk, scan_sections, file_info_list, is_cancelled, ana_dosya_isimleri,
                 ana_dosya_mapping, ana_dosya_patterns, scan_i, eslesen_dosyalar,
                 non_matched_files, matched_files, patVars, idxVars, copyVars, placeVars, moreVars>>

ScanNext == scan_filenames_only \/ ScanIndex \/ CompareItem \/ ScanFinalize

Spec == ScanInit /\ [][ScanNext]_vars

\* scans with a section list: files under d1, d2 and beside the root under r2
SectionWalks ==
  DistinctSeqs({ [dir |-> "d1", name |-> <<"a">>], [dir |-> "d2", name |-> <<"I", "a">>],
                 [dir |-> "r2", name |-> <<"a">>] }, MaxRef)

SectionLists == UNION { [1..k -> SectionNames] : k \in 0..MaxSections }

SectionsInit ==
  /\ MoreIdle
  /\ PlaceIdle
  /\ PatIdle
  /\ IdxIdle
  /\ CopyIdle
  /\ ref_walk \in SectionWalks
  /\ scan_sections \in SectionLists
  /\ file_info_list \in { <<>>, << <<"a">> >> }
  /\ scan_pc = "idle"
  /\ is_cancelled = FALSE
  /\ ana_dosya_isimleri = {}
  /\ ana_dosya_mapping = <<>>
  /\ ana_dosya_patterns = <<>>
  /\ scan_i = 0
  /\ eslesen_dosyalar = <<>>
  /\ non_matched_files = <<>>
  /\ matched_files = <<>>
  /\ progress = ProgressInit

SpecSections == SectionsInit /\ [][ScanNext]_vars

\* ------------------------------------------------- claims about the scan
\* what the claims say about one reference file f and one target name t, read off
\* the reference tree itself
RefSet == { ref_walk[k] : k \in 1..Len(ref_walk) }

YieldsExact(f, t) == Lower(f.name) = Lower(t)

YieldsIRemoved(f, t) ==
  StartsWithI(Lower(t)) /\ CharLen(Lower(t)) > 1 /\ Lower(f.name) = Tail(Lower(t))

YieldsIAdded(f, t) == Lower(f.name) = <<"i">> \o Lower(t)

YieldsPattern(f, t) == extract_file_pattern(f.name) = extract_file_pattern(t)

Yields(f, t) ==
  YieldsExact(f, t) \/ YieldsIRemoved(f, t) \/ YieldsIAdded(f, t) \/ YieldsPattern(f, t)

FirstType(f, t) ==
  IF YieldsExact(f, t) THEN "EXACT"
  ELSE IF YieldsIRemoved(f, t) THEN "I-PREFIX REMOVED"
  ELSE IF YieldsIAdded(f, t) THEN "I-PREFIX ADDED"
  ELSE "PATTERN"

Rank(mtype) ==
  CASE mtype = "EXACT" -> 1
    [] mtype = "I-PREFIX REMOVED" -> 2
    [] mtype = "I-PREFIX ADDED" -> 3
    [] OTHER -> 4

Records == { eslesen_dosyalar[k] : k \in 1..Len(eslesen_dosyalar) }

LowerNames == { Lower(n) : n \in ScanNames }

\* the entries of record r whose lowercased file name is in the set S
EntriesNamed(r, S) == { k \in 1..Len(r.match_locations) : Lower(r.match_locations[k].name) \in S }

\* the entries of record r of match type mtype
EntriesTyped(r, mtype) == { k \in 1..Len(r.match_types) : r.match_types[k] = mtype }

NoDupBase(r) ==
  \A x, y \in 1..Len(r.match_locations) :
    x # y => CanonicalBase(r.match_locations[x].name) # CanonicalBase(r.match_locations[y].name)

\* C1 (as stated): after a completed scan,
\* matched_groups + non_matched_count = total_scanned.
C1_CountConsistency ==
  (scan_pc = "done" /\ progress.completed)
    => progress.matched_groups + progress.non_matched_count = progress.total_scanned

\* C2 (as stated): no two entries of a match record share a canonical base name, and
\* when the index holds both f and 'i'+f, a target named f or 'i'+f has exactly one match.
C2_Original ==
  \A r \in Records :
    /\ NoDupBase(r)
    /\ \A f \in LowerNames :
         ( /\ f \in ana_dosya_isimleri
           /\ (<<"i">> \o f) \in ana_dosya_isimleri
           /\ Lower(r.target_file.name) \in {f, <<"i">> \o f} )
         => r.match_count = 1

\* C2 (amended): no two entries of a match record share a canonical base name, and
\* when f does not start with 'i' and the index holds both f and 'i'+f, a target named
\* f or 'i'+f has exactly one of these two files among its matches.
C2_DedupInvariant ==
  \A r \in Records :
    /\ NoDupBase(r)
    /\ \A f \in LowerNames :
         ( /\ ~StartsWithI(f)
           /\ f \in ana_dosya_isimleri
           /\ (<<"i">> \o f) \in ana_dosya_isimleri
           /\ Lower(r.target_file.name) \in {f, <<"i">> \o f} )
         => Cardinality(EntriesNamed(r, {f, <<"i">> \o f})) = 1

\* C2 witness: the index holds a and ia, the target is one of them, one match is kept.
C2_Witness ==
  \E r \in Records : \E f \in LowerNames :
    /\ ~StartsWithI(f)
    /\ f \in ana_dosya_isimleri
    /\ (<<"i">> \o f) \in ana_dosya_isimleri
    /\ Lower(r.target_file.name) = <<"i">> \o f
    /\ r.match_count = 1

\* C3: every match carries the type of the first strategy, in the order EXACT,
\* I-PREFIX REMOVED, I-PREFIX ADDED, PATTERN, that yields its file; the match list is in
\* that order; a file whose lowercased name equals the target's is EXACT; and a kept
\* match comes from a strategy no later than any candidate with its canonical base name.
C3_PriorityOrder ==
  \A r \in Records :
    LET t == r.target_file.name
    IN /\ Len(r.match_types) = Len(r.match_locations)
       /\ \A k \in 1..Len(r.match_locations) :
            LET m == r.match_locations[k]
            IN /\ m \in RefSet
               /\ Yields(m, t)
               /\ r.match_types[k] = FirstType(m, t)
               /\ (Lower(m.name) = Lower(t) => r.match_types[k] = "EXACT")
               /\ \A c \in RefSet :
                    (CanonicalBase(c.name) = CanonicalBase(m.name) /\ Yields(c, t))
                      => Rank(r.match_types[k]) <= Rank(FirstType(c, t))
       /\ \A x, y \in 1..Len(r.match_types) :
            x < y => Rank(r.match_types[x]) <= Rank(r.match_types[y])

\* C3 witness: an EXACT match was kept and an I-variant candidate with the same
\* canonical base name was dropped.
C3_Witness ==
  \E r \in Records : \E c \in RefSet :
    /\ r.match_types = <<"EXACT">>
    /\ ~InSeq(c, r.match_locations)
    /\ FirstType(c, r.target_file.name) = "I-PREFIX ADDED"
    /\ YieldsIAdded(c, r.target_file.name)
    /\ CanonicalBase(c.name) = CanonicalBase(r.match_locations[1].name)

IsMatchedName(t) == \E f \in RefSet : Yields(f, t)

IsNonMatchedName(t) == ~IsMatchedName(t)

\* C5: of the target items compared so far, exactly those for which one of the four
\* lookups yields a reference file have a match record, the others are in the
\* non-matched list, in input order; every record's match_count is the length of its
\* match list and at least 1.
C5_Classification ==
  scan_pc \in {"compare", "done"} =>
    LET seen == SubSeq(file_info_list, 1, scan_i)
        hit == SelectSeq(seen, IsMatchedName)
        miss == SelectSeq(seen, IsNonMatchedName)
    IN /\ Len(eslesen_dosyalar) = Len(hit)
       /\ Len(non_matched_files) = Len(miss)
       /\ Len(eslesen_dosyalar) + Len(non_matched_files) = scan_i
       /\ \A k \in 1..Len(hit) :
            /\ eslesen_dosyalar[k].target_file.name = hit[k]
            /\ eslesen_dosyalar[k].match_count = Len(eslesen_dosyalar[k].match_locations)
            /\ eslesen_dosyalar[k].match_count = Len(eslesen_dosyalar[k].match_types)
            /\ eslesen_dosyalar[k].match_count >= 1
       /\ \A k \in 1..Len(miss) :
            non_matched_files[k].name = format_display_name(miss[k])

\* C5 witness: a finished scan with a matched and a non-matched target.
C5_Witness ==
  /\ scan_pc = "done"
  /\ Len(eslesen_dosyalar) = 1
  /\ Len(non_matched_files) = 1
  /\ eslesen_dosyalar[1].match_count = 2

\* C6 (as stated): after a completed scan matched_total >= matched_groups, with
\* equality iff no target item has more than one surviving match.
C6_TotalVsGroups ==
  (scan_pc = "done" /\ progress.completed) =>
    /\ progress.matched_total >= progress.matched_groups
    /\ (progress.matched_total = progress.matched_groups
          <=> \A r \in Records : r.match_count <= 1)

\* ------------------------------------- claims about the pattern function
\* the parts extract_file_pattern strips, read off a lowercased name p
HasPdfExt(p) == Len(p) >= 1 /\ p[Len(p)] = ".pdf"

HasNumSuffix(p) ==
  \E j \in 1..Len(p) : p[j] = "_" /\ j < Len(p) /\ \A m \in (j + 1)..Len(p) : p[m] \in Digits

HasIPrefix(p) == Len(p) > 1 /\ p[1] = "i"

\* C7 (as stated): the pattern function is idempotent, directly and after a synthetic
\* '.pdf' extension is re-added to its output.
C7_Idempotent ==
  pat_pc = "twice" => (pat_again = pat_out /\ pat_ext = pat_out)

\* C7 (amended): pattern(pattern(f)) = pattern(f) exactly when pattern(f) has nothing
\* left to strip (no '.pdf' ending, no trailing '_<digits>', no leading 'i' before
\* another character); with '.pdf' re-added the same holds without the '.pdf' condition.
C7_IdempotentWhenStripped ==
  pat_pc = "twice" =>
    /\ pat_again = pat_out
         <=> (~HasPdfExt(pat_out) /\ ~HasNumSuffix(pat_out) /\ ~HasIPrefix(pat_out))
    /\ pat_ext = pat_out
         <=> (~HasNumSuffix(pat_out) /\ ~HasIPrefix(pat_out))

\* C7 witness: a name with prefix, suffix and extension whose pattern is a fixed point.
C7_Witness ==
  /\ pat_pc = "twice"
  /\ pat_in = <<"I", "a", "_", "1">>
  /\ pat_out = <<"a">>
  /\ pat_again = pat_out
  /\ pat_ext = pat_out

\* ------------------------------------------------- persisted search index
\* paths the placement / update operations and the index build handle
IdxPaths == {"p1", "p2", "p3"}

\* what os.walk can hand to the index build
BuildLists == { <<"p1">>, <<"p2", "p3">> }

\* search_index.json as an earlier run left it
IndexFiles ==
  { NoFile,
    [exists |-> TRUE, paths |-> <<>>, text |-> "json"],
    [exists |-> TRUE, paths |-> <<"p1">>, text |-> "json"] }

JsonFile(paths) == [exists |-> TRUE, paths |-> paths, text |-> "json"]

\* open(index_file, 'w'): the file exists and is empty from this moment on
Truncated == [exists |-> TRUE, paths |-> <<>>, text |-> "empty"]

\* a write of `paths` from offset 0 through a handle opened earlier: a full array
\* is valid JSON unless longer text written through another handle stays behind
\* it (array entries are taken to be of equal length); a prefix never is
WriteFrom0(file, paths, whole) ==
  IF whole /\ Len(file.paths) <= Len(paths)
    THEN JsonFile(paths)
    ELSE [exists |-> TRUE, paths |-> paths, text |-> "broken"]

\* f.read() followed by json.loads in update_index_for_file: empty content and
\* JSONDecodeError both leave all_paths = []
LoadForUpdate(file) ==
  IF file.exists /\ file.text = "json" THEN file.paths ELSE <<>>

\* remove_file_from_index returns at once on JSONDecodeError
RemoveGivesUp(file) == file.exists /\ file.text = "broken"

\* [p for p in all_paths if p != file_path_str]
Without(paths, p) == SelectSeq(paths, LAMBDA q : q # p)

IdxInit ==
  /\ MoreIdle
  /\ PlaceIdle
  /\ PatIdle
  /\ ScanIdle
  /\ CopyIdle
  /\ index_file \in IndexFiles
  /\ temp_file = NoFile
  /\ index_lock = [t \in Callers |-> FALSE]
  /\ idx_pc = [t \in Callers |-> "idle"]
  /\ idx_op = [t \in Callers |-> NoValue]
  /\ idx_arg = [t \in Callers |-> NoValue]
  /\ idx_paths = [t \in Callers |-> <<>>]
  /\ idx_fd = [t \in Callers |-> "none"]
  /\ build_pc = "idle"
  /\ build_running = FALSE
  /\ build_paths = <<>>
  /\ read_seen = NotRead

\* a placement or update operation constructs a WebSettingsManager and enters
\* update_index_for_file: `with self._index_lock` of that new instance
update_index_for_file(t, p) ==
  /\ idx_pc[t] = "idle"
  /\ ~index_lock[t]
  /\ index_lock' = [index_lock EXCEPT ![t] = TRUE]
  /\ idx_op' = [idx_op EXCEPT ![t] = "update"]
  /\ idx_arg' = [idx_arg EXCEPT ![t] = p]
  /\ idx_pc' = [idx_pc EXCEPT ![t] = "locked"]
  /\ idx_entry' = [idx_entry EXCEPT ![t] = LoadForUpdate(index_file)]
  /\ UNCHANGED <<index_file, temp_file, idx_paths, idx_fd, build_pc, build_running,
                 build_paths, read_seen, idx_hist, workers, modeVars, buildVars,
                 patVars, scanVars, copyVars, placeVars>>

\* the same entry into remove_file_from_index
remove_file_from_index(t, p) ==
  /\ idx_pc[t] = "idle"
  /\ ~index_lock[t]
  /\ index_lock' = [index_lock EXCEPT ![t] = TRUE]
  /\ idx_op' = [idx_op EXCEPT ![t] = "remove"]
  /\ idx_arg' = [idx_arg EXCEPT ![t] = p]
  /\ idx_pc' = [idx_pc EXCEPT ![t] = "locked"]
  /\ idx_entry' = [idx_entry EXCEPT ![t] = LoadForUpdate(index_file)]
  /\ UNCHANGED <<index_file, temp_file, idx_paths, idx_fd, build_pc, build_running,
                 build_paths, read_seen, idx_hist, workers, modeVars, buildVars,
                 patVars, scanVars, copyVars, placeVars>>

\* both calls: read the whole file into all_paths
IdxRead(t) ==
  /\ idx_pc[t] = "locked"
  /\ IF idx_op[t] = "remove" /\ RemoveGivesUp(index_file)
       THEN /\ idx_pc' = [idx_pc EXCEPT ![t] = "done"]
            /\ index_lock' = [index_lock EXCEPT ![t] = FALSE]
            /\ UNCHANGED idx_paths
       ELSE /\ idx_pc' = [idx_pc EXCEPT ![t] = "loaded"]
            /\ idx_paths' = [idx_paths EXCEPT ![t] = LoadForUpdate(index_file)]
            /\ UNCHANGED index_lock
  /\ UNCHANGED <<index_file, temp_file, idx_op, idx_arg, idx_fd, build_pc,
                 build_running, build_paths, read_seen, patVars, scanVars, copyVars, placeVars, moreVars>>

\* a plausible slip: the path is appended without the membership test
IdxOpenW_alwaysAppend(t) ==
  /\ idx_pc[t] = "loaded"
  /\ LET present == InSeq(idx_arg[t], idx_paths[t])
         change == IF idx_op[t] = "update" THEN TRUE ELSE present
         new_paths == IF idx_op[t] = "update"
                        THEN Append(idx_paths[t], idx_arg[t])
                        ELSE Without(idx_paths[t], idx_arg[t])
     IN IF change
          THEN /\ idx_paths' = [idx_paths EXCEPT ![t] = new_paths]
               /\ index_file' = Truncated
               /\ idx_fd' = [idx_fd EXCEPT ![t] = "index"]
               /\ idx_pc' = [idx_pc EXCEPT ![t] = "opened"]
               /\ UNCHANGED index_lock
          ELSE /\ idx_pc' = [idx_pc EXCEPT ![t] = "done"]
               /\ index_lock' = [index_lock EXCEPT ![t] = FALSE]
               /\ UNCHANGED <<idx_paths, index_file, idx_fd>>
  /\ UNCHANGED <<temp_file, idx_op, idx_arg, build_pc, build_running, build_paths,
                 read_seen, patVars, scanVars, copyVars, placeVars, moreVars>>

\* both calls: nothing to change, return True and leave the lock; or change
\* all_paths and open(self.index_file, 'w')
IdxOpenW(t) ==
  /\ idx_pc[t] = "loaded"
  /\ LET present == InSeq(idx_arg[t], idx_paths[t])
         change == IF idx_op[t] = "update" THEN ~present ELSE present
         new_paths == IF idx_op[t] = "update"
                        THEN Append(idx_paths[t], idx_arg[t])
                        ELSE Without(idx_paths[t], idx_arg[t])
     IN IF change
          THEN /\ idx_paths' = [idx_paths EXCEPT ![t] = new_paths]
               /\ index_file' = Truncated
               /\ idx_fd' = [idx_fd EXCEPT ![t] = "index"]
               /\ idx_pc' = [idx_pc EXCEPT ![t] = "opened"]
               /\ UNCHANGED index_lock
          ELSE /\ idx_pc' = [idx_pc EXCEPT ![t] = "done"]
               /\ index_lock' = [index_lock EXCEPT ![t] = FALSE]
               /\ UNCHANGED <<idx_paths, index_file, idx_fd>>
  /\ UNCHANGED <<temp_file, idx_op, idx_arg, build_pc, build_running, build_paths,
                 read_seen, patVars, scanVars, copyVars, placeVars, moreVars>>

\* json.dump(all_paths, f): the buffer is flushed before the array is complete
IdxFlush(t) ==
  /\ idx_pc[t] = "opened"
  /\ \E k \in 1..(Len(idx_paths[t]) - 1) :
       index_file' = IF idx_fd[t] = "index"
                       THEN WriteFrom0(index_file, SubSeq(idx_paths[t], 1, k), FALSE)
                       ELSE index_file
  /\ idx_pc' = [idx_pc EXCEPT ![t] = "flushed"]
  /\ UNCHANGED <<temp_file, index_lock, idx_op, idx_arg, idx_paths, idx_fd, build_pc,
                 build_running, build_paths, read_seen, patVars, scanVars, copyVars, placeVars, moreVars>>

\* leaving `with open(...)`: the rest is written, the file closed, the lock left
IdxClose(t) ==
  /\ idx_pc[t] \in {"opened", "flushed"}
  /\ index_file' = IF idx_fd[t] = "index"
                     THEN WriteFrom0(index_file, idx_paths[t], TRUE)
                     ELSE index_file
  /\ idx_fd' = [idx_fd EXCEPT ![t] = "none"]
  /\ index_lock' = [index_lock EXCEPT ![t] = FALSE]
  /\ idx_pc' = [idx_pc EXCEPT ![t] = "done"]
  /\ UNCHANGED <<temp_file, idx_op, idx_arg, idx_paths, build_pc, build_running,
                 build_paths, read_seen, patVars, scanVars, copyVars, placeVars, moreVars>>

\* build_search_index starts the thread, which sets running
build_search_index ==
  /\ build_pc = "idle"
  /\ ~build_running
  /\ build_running' = TRUE
  /\ build_pc' = "scanning"
  /\ UNCHANGED <<index_file, temp_file, index_lock, idx_pc, idx_op, idx_arg,
                 idx_paths, idx_fd, build_paths, read_seen, patVars, scanVars, copyVars, placeVars, moreVars>>

\* cancel_index_build
cancel_index_build ==
  /\ build_running
  /\ build_running' = FALSE
  /\ UNCHANGED <<index_file, temp_file, index_lock, idx_pc, idx_op, idx_arg,
                 idx_paths, idx_fd, build_pc, build_paths, read_seen, patVars,
                 scanVars, copyVars, placeVars, moreVars>>

\* phase 1: discover all files (returns when cancelled)
BuildDiscover ==
  /\ build_pc = "scanning"
  /\ IF build_running
       THEN /\ \E l \in BuildLists : build_paths' = l
            /\ build_pc' = "writing"
       ELSE /\ build_pc' = "done"
            /\ UNCHANGED build_paths
  /\ UNCHANGED <<index_file, temp_file, index_lock, idx_pc, idx_op, idx_arg,
                 idx_paths, idx_fd, build_running, read_seen, patVars, scanVars, copyVars, placeVars, moreVars>>

\* phase 2: write search_index.tmp; a cancelled writer returns and leaves the
\* unfinished temporary file behind
BuildWriteTemp ==
  /\ build_pc = "writing"
  /\ IF build_running
       THEN /\ temp_file' = JsonFile(build_paths)
            /\ build_pc' = "written"
            /\ UNCHANGED build_running
       ELSE /\ temp_file' = [exists |-> TRUE, paths |-> <<>>, text |-> "broken"]
            /\ build_pc' = "done"
            /\ UNCHANGED build_running
  /\ UNCHANGED <<index_file, index_lock, idx_pc, idx_op, idx_arg, idx_paths, idx_fd,
                 build_paths, read_seen, patVars, scanVars, copyVars, placeVars, moreVars>>

\* os.replace(temp_index_file, self.index_file); handles opened on the old file
\* keep referring to it; finally: running = False
BuildReplace ==
  /\ build_pc = "written"
  /\ index_file' = temp_file
  /\ temp_file' = NoFile
  /\ idx_fd' = [t \in Callers |-> IF idx_fd[t] = "index" THEN "replaced" ELSE idx_fd[t]]
  /\ build_running' = FALSE
  /\ build_pc' = "done"
  /\ UNCHANGED <<index_lock, idx_pc, idx_op, idx_arg, idx_paths, build_paths,
                 read_seen, patVars, scanVars, copyVars, placeVars, moreVars>>

\* _search_component_code: json.load(search_index.json)
ReadIndex ==
  /\ read_seen' = IF ~index_file.exists THEN [result |-> "not found", paths |-> <<>>]
                  ELSE IF index_file.text = "json"
                         THEN [result |-> "list", paths |-> index_file.paths]
                         ELSE [result |-> "unreadable", paths |-> index_file.paths]
  /\ UNCHANGED <<index_file, temp_file, index_lock, idx_pc, idx_op, idx_arg,
                 idx_paths, idx_fd, build_pc, build_running, build_paths, patVars,
                 scanVars, copyVars, placeVars, moreVars>>

IdxNext ==
  \/ \E t \in Callers, p \in IdxPaths : update_index_for_file(t, p)
  \/ \E t \in Callers, p \in IdxPaths : remove_file_from_index(t, p)
  \/ \E t \in Callers : IdxRead(t)
  \/ \E t \in Callers : IdxOpenW(t)
  \/ \E t \in Callers : IdxFlush(t)
  \/ \E t \in Callers : IdxClose(t)
  \/ build_search_index
  \/ cancel_index_build
  \/ BuildDiscover
  \/ BuildWriteTemp
  \/ BuildReplace
  \/ ReadIndex

SpecIndex == IdxInit /\ [][IdxNext]_vars

\* ------------------------------------------- claims about the persisted index
\* every caller made an update_index_for_file call that has returned, and no
\* removal or rebuild ran beside them
OnlyAppendersRan ==
  /\ \A t \in Callers : idx_pc[t] = "done" /\ idx_op[t] = "update"
  /\ build_pc = "idle"

\* C8 (as stated): for any interleaving of update_index_for_file calls made
\* through separately constructed WebSettingsManager instances no update is lost:
\* once all calls have returned, every path that was added is in
\* search_index.json.
C8_NoLostUpdate ==
  OnlyAppendersRan =>
    /\ index_file.exists
    /\ index_file.text = "json"
    /\ \A t \in Callers : InSeq(idx_arg[t], index_file.paths)

\* C9 (as stated): a reader of search_index.json observes a complete list (the
\* old one or the new one) whenever the file is there, never a partially written
\* one.
C9_ReaderSeesCompleteList == read_seen.result # "unreadable"

\* ------------------------------------------------------- copy operations
\* the destination folder as it is found: which of the names are already there
DestDirs ==
  { [n \in ScanNames |-> IF n \in S THEN "earlier" ELSE "absent"] :
      S \in SUBSET { <<"a">>, <<"I", "a">> } }

\* sp.stat().st_mtime: the files of d2 were written after those of d1
st_mtime(sp) == IF sp.dir = "d1" THEN 1 ELSE 2

\* filename_to_file[filename_lower] = {...}: a new key goes to the end, a key
\* already there keeps its place
PutByName(acc, sp) ==
  IF \E k \in 1..Len(acc) : Lower(acc[k].target_name) = Lower(sp.name)
    THEN [k \in 1..Len(acc) |->
            IF Lower(acc[k].target_name) = Lower(sp.name)
              THEN [source_path |-> sp, target_name |-> sp.name]
              ELSE acc[k]]
    ELSE Append(acc, [source_path |-> sp, target_name |-> sp.name])

\* the first loop of copy_matched_files (the ZIP download repeats it): a path
\* whose canonical base name is taken is skipped; otherwise a path whose
\* lowercased name is taken replaces the entry when it is newer; otherwise it is
\* entered. acc is list(filename_to_file.values())
RECURSIVE DedupCopyable(_, _, _)
DedupCopyable(files, base_name_to_file, acc) ==
  IF files = <<>> THEN acc
  ELSE LET sp == Head(files)
           base_name == CanonicalBase(sp.name)
           listed == { k \in 1..Len(acc) : Lower(acc[k].target_name) = Lower(sp.name) }
       IN IF base_name \in base_name_to_file
            THEN DedupCopyable(Tail(files), base_name_to_file, acc)
          ELSE IF listed # {}
            THEN IF \A k \in listed : st_mtime(sp) > st_mtime(acc[k].source_path)
                   THEN DedupCopyable(Tail(files), base_name_to_file \cup {base_name},
                                      PutByName(acc, sp))
                   ELSE DedupCopyable(Tail(files), base_name_to_file, acc)
          ELSE DedupCopyable(Tail(files), base_name_to_file \cup {base_name},
                             PutByName(acc, sp))

\* the first loop of copy_non_matched_files: entries of a filename-only scan carry
\* no source path and are skipped
HasSourcePath(e) == e.path.dir # "(filename-only)"

\* WebBaseManager.update_progress
update_progress(p, percentage, current, total, status) ==
  [p EXCEPT !.percentage = percentage, !.current = current, !.total = total,
            !.status = status]

\* the progress fields /api/copy-matched and /api/copy-non-matched reset
ResetForCopy(p) ==
  [p EXCEPT !.completed = FALSE, !.error = NoValue, !.percentage = 0,
            !.status = "Starting copy..."]

CopyInit ==
  /\ MoreIdle
  /\ PlaceIdle
  /\ PatIdle
  /\ IdxIdle
  /\ ScanReady
  /\ copy_pc = "idle"
  /\ dest_dir \in DestDirs
  /\ dest_before = dest_dir
  /\ copyable_files = <<>>
  /\ copy_i = 0
  /\ copied = 0
  /\ errors = 0
  /\ copy_log = <<>>
  /\ cancel_called = FALSE

\* POST /api/copy-matched after a scan: reset progress, start the copy thread
api_copy_matched ==
  /\ scan_pc = "done"
  /\ copy_pc \in {"idle", "matched_done", "non_matched_done"}
  /\ progress' = ResetForCopy(progress)
  /\ cancel_called' = FALSE
  /\ copy_pc' = "matched_started"
  /\ UNCHANGED <<ref_walk, scan_sections, file_info_list, scan_pc, is_cancelled, ana_dosya_isimleri,
                 ana_dosya_mapping, ana_dosya_patterns, scan_i, eslesen_dosyalar,
                 non_matched_files, matched_files, dest_dir, dest_before,
                 copyable_files, copy_i, copied, errors, copy_log, patVars, idxVars, placeVars, moreVars>>

\* POST /api/copy-non-matched after a scan
api_copy_non_matched ==
  /\ scan_pc = "done"
  /\ copy_pc \in {"idle", "matched_done", "non_matched_done"}
  /\ progress' = ResetForCopy(progress)
  /\ cancel_called' = FALSE
  /\ copy_pc' = "non_matched_started"
  /\ UNCHANGED <<ref_walk, scan_sections, file_info_list, scan_pc, is_cancelled, ana_dosya_isimleri,
                 ana_dosya_mapping, ana_dosya_patterns, scan_i, eslesen_dosyalar,
                 non_matched_files, matched_files, dest_dir, dest_before,
                 copyable_files, copy_i, copied, errors, copy_log, patVars, idxVars, placeVars, moreVars>>

\* copy_matched_files up to the copy loop
CopyMatchedPrepare ==
  /\ copy_pc = "matched_started"
  /\ LET files == DedupCopyable(matched_files, {}, <<>>)
     IN IF matched_files = <<>>
          THEN /\ progress' = set_error(progress, "No matched files to copy")
               /\ copy_pc' = "matched_done"
               /\ copyable_files' = <<>>
               /\ copy_i' = 0
               /\ copied' = 0
               /\ errors' = 0
               /\ copy_log' = <<>>
               /\ UNCHANGED dest_before
          ELSE IF files = <<>>
          THEN /\ progress' = set_error(progress, "No copyable files found")
               /\ copy_pc' = "matched_done"
               /\ copyable_files' = <<>>
               /\ copy_i' = 0
               /\ copied' = 0
               /\ errors' = 0
               /\ copy_log' = <<>>
               /\ UNCHANGED dest_before
          ELSE /\ copyable_files' = files
               /\ dest_before' = dest_dir
               /\ copy_i' = 0
               /\ copied' = 0
               /\ errors' = 0
               /\ copy_log' = <<>>
               /\ copy_pc' = "matched_copying"
               /\ UNCHANGED progress
  /\ UNCHANGED <<ref_walk, scan_sections, file_info_list, scan_pc, is_cancelled, ana_dosya_isimleri,
                 ana_dosya_mapping, ana_dosya_patterns, scan_i, eslesen_dosyalar,
                 non_matched_files, matched_files, dest_dir, cancel_called,
                 patVars, idxVars, placeVars, moreVars>>

\* one iteration of the copy loop: shutil.copy2 writes the destination whether or
\* not it is there already, or raises and the error is counted
CopyMatchedItem ==
  /\ copy_pc = "matched_copying"
  /\ copy_i < Len(copyable_files)
  /\ LET file_info == copyable_files[copy_i + 1]
         total == Len(copyable_files)
     IN /\ progress' = update_progress(progress, ((copy_i + 1) * 100) \div Max(1, total),
                                       copied + 1, total, "Copying")
        /\ \/ /\ dest_dir' = [dest_dir EXCEPT ![file_info.target_name] =
                                                 file_info.source_path.dir]
              /\ copied' = copied + 1
              /\ copy_log' = Append(copy_log, [name |-> file_info.target_name,
                                                outcome |-> "copied"])
              /\ UNCHANGED errors
           \/ /\ errors' = errors + 1
              /\ copy_log' = Append(copy_log, [name |-> file_info.target_name,
                                                outcome |-> "error"])
              /\ UNCHANGED <<dest_dir, copied>>
  /\ copy_i' = copy_i + 1
  /\ UNCHANGED <<ref_walk, scan_sections, file_info_list, scan_pc, is_cancelled, ana_dosya_isimleri,
                 ana_dosya_mapping, ana_dosya_patterns, scan_i, eslesen_dosyalar,
                 non_matched_files, matched_files, dest_before, copyable_files,
                 copy_pc, cancel_called,
                 patVars, idxVars, placeVars, moreVars>>

\* a plausible slip: the copy is reported as completed whatever was copied
CopyMatchedFinish_alwaysCompletes ==
  /\ copy_pc = "matched_copying"
  /\ copy_i = Len(copyable_files)
  /\ \E log_ok \in BOOLEAN :
       progress' = set_completed(create_log_file(progress, log_ok))
  /\ matched_files' = <<>>
  /\ non_matched_files' = <<>>
  /\ copy_pc' = "matched_done"
  /\ UNCHANGED <<ref_walk, scan_sections, file_info_list, scan_pc, is_cancelled, ana_dosya_isimleri,
                 ana_dosya_mapping, ana_dosya_patterns, scan_i, eslesen_dosyalar,
                 dest_dir, dest_before, copyable_files, copy_i, copied, errors,
                 copy_log, cancel_called,
                 patVars, idxVars, placeVars, moreVars>>

\* after the loop: report, set_completed and release_heavy_buffers, or set_error
CopyMatchedFinish ==
  /\ copy_pc = "matched_copying"
  /\ copy_i = Len(copyable_files)
  /\ IF copied > 0
       THEN /\ \E log_ok \in BOOLEAN :
                 progress' = set_completed(create_log_file(progress, log_ok))
            /\ matched_files' = <<>>
            /\ non_matched_files' = <<>>
       ELSE /\ progress' = set_error(progress, "No files were successfully copied")
            /\ UNCHANGED <<matched_files, non_matched_files>>
  /\ copy_pc' = "matched_done"
  /\ UNCHANGED <<ref_walk, scan_sections, file_info_list, scan_pc, is_cancelled, ana_dosya_isimleri,
                 ana_dosya_mapping, ana_dosya_patterns, scan_i, eslesen_dosyalar,
                 dest_dir, dest_before, copyable_files, copy_i, copied, errors,
                 copy_log, cancel_called,
                 patVars, idxVars, placeVars, moreVars>>

\* [Path(e['path']) for the entries that name a file on disk]
RECURSIVE SourcePaths(_)
SourcePaths(entries) ==
  IF entries = <<>> THEN <<>>
  ELSE IF HasSourcePath(Head(entries))
    THEN <<Head(entries).path>> \o SourcePaths(Tail(entries))
    ELSE SourcePaths(Tail(entries))

\* copy_non_matched_files up to the copy loop: nothing to copy, or nothing with a
\* source path, or the deduplicated batch
CopyNonMatched ==
  /\ copy_pc = "non_matched_started"
  /\ LET files == DedupCopyable(SourcePaths(non_matched_files), {}, <<>>)
     IN /\ copyable_files' = files
        /\ IF non_matched_files = <<>>
             THEN /\ progress' = set_error(progress, "No non-matched files to copy")
                  /\ copy_pc' = "non_matched_done"
             ELSE IF files = <<>>
             THEN /\ progress' = set_error(progress, "No copyable files found")
                  /\ copy_pc' = "non_matched_done"
             ELSE /\ copy_pc' = "non_matched_copying"
                  /\ UNCHANGED progress
  /\ dest_before' = dest_dir
  /\ copy_i' = 0
  /\ copied' = 0
  /\ errors' = 0
  /\ copy_log' = <<>>
  /\ UNCHANGED <<ref_walk, scan_sections, file_info_list, scan_pc, is_cancelled, ana_dosya_isimleri,
                 ana_dosya_mapping, ana_dosya_patterns, scan_i, eslesen_dosyalar,
                 non_matched_files, matched_files, dest_dir, cancel_called,
                 patVars, idxVars, placeVars, moreVars>>

\* the first iteration of the copy loop of copy_non_matched_files: the entries
\* hold 'source_path' and 'target_name', the loop reads file_info.get('path', ''),
\* so shutil.copy2 is handed the current directory and raises; the handler reads
\* file_info['name'], the KeyError leaves the loop and the outer handler calls
\* set_error. No entry is copied or counted, the rest of the batch is not tried
CopyNonMatchedItem ==
  /\ copy_pc = "non_matched_copying"
  /\ copy_i < Len(copyable_files)
  /\ progress' = set_error(progress, "Copy operation failed: 'name'")
  /\ copy_pc' = "non_matched_done"
  /\ UNCHANGED <<ref_walk, scan_sections, file_info_list, scan_pc, is_cancelled, ana_dosya_isimleri,
                 ana_dosya_mapping, ana_dosya_patterns, scan_i, eslesen_dosyalar,
                 non_matched_files, matched_files, dest_dir, dest_before,
                 copyable_files, copy_i, copied, errors, copy_log, cancel_called,
                 patVars, idxVars, placeVars, moreVars>>

CopyNext ==
  \/ api_copy_matched
  \/ api_copy_non_matched
  \/ CopyMatchedPrepare
  \/ CopyMatchedItem
  \/ CopyMatchedFinish
  \/ CopyNonMatched

SpecCopy == CopyInit /\ [][ScanNext \/ CopyNext]_vars

\* the copy operations on the result lists of any finished scan: matched_files is
\* a list of reference paths; an entry of non_matched_files names no file (the
\* filename-only scan) or the target file itself (the folder comparison of
\* _scan_thread)
TargetFolder == "t1"

BatchNames == { <<"a">>, <<"I", "a">> }

BatchNonMatched ==
  DistinctSeqs({ NonMatchedEntry(n) : n \in BatchNames }
                 \cup { [name |-> format_display_name(n),
                         path |-> [dir |-> TargetFolder, name |-> n]] : n \in BatchNames },
               MaxTargets)

BatchMatched ==
  DistinctSeqs({ [dir |-> "d1", name |-> <<"a">>], [dir |-> "d2", name |-> <<"I", "a">>],
                 [dir |-> "d1", name |-> <<"A", "_", "1", ".pdf">>] }, MaxRef)

BatchInit ==
  /\ MoreIdle
  /\ PlaceIdle
  /\ PatIdle
  /\ IdxIdle
  /\ ref_walk = <<>>
  /\ scan_sections = <<>>
  /\ file_info_list = <<>>
  /\ scan_pc = "done"
  /\ is_cancelled = FALSE
  /\ ana_dosya_isimleri = {}
  /\ ana_dosya_mapping = <<>>
  /\ ana_dosya_patterns = <<>>
  /\ scan_i = 0
  /\ eslesen_dosyalar = <<>>
  /\ non_matched_files \in BatchNonMatched
  /\ matched_files \in BatchMatched
  /\ progress = set_completed(ProgressInit)
  /\ copy_pc = "idle"
  /\ dest_dir \in DestDirs
  /\ dest_before = dest_dir
  /\ copyable_files = <<>>
  /\ copy_i = 0
  /\ copied = 0
  /\ errors = 0
  /\ copy_log = <<>>
  /\ cancel_called = FALSE

BatchNext == CopyNext \/ CopyNonMatchedItem

SpecCopyBatch == BatchInit /\ [][BatchNext]_vars

\* ------------------------------------------------------------- cancellation

ScanRunning == scan_pc \in {"started", "compare"}

CopyRunning ==
  copy_pc \in {"matched_started", "matched_copying", "non_matched_started",
               "non_matched_copying"}

\* WebScanManager.cancel, reached through /api/cancel-operation/scan while a scan
\* or a copy of this manager is running
Scan_cancel ==
  /\ ScanRunning \/ CopyRunning
  /\ ~is_cancelled \/ (CopyRunning /\ ~cancel_called)
  /\ is_cancelled' = TRUE
  /\ cancel_called' = (cancel_called \/ CopyRunning)
  /\ UNCHANGED <<ref_walk, scan_sections, file_info_list, scan_pc, ana_dosya_isimleri,
                 ana_dosya_mapping, ana_dosya_patterns, scan_i, eslesen_dosyalar,
                 non_matched_files, matched_files, progress, copy_pc, dest_dir,
                 dest_before, copyable_files, copy_i, copied, errors, copy_log,
                 patVars, idxVars, placeVars, moreVars>>

\* the top of an iteration of the comparison loop when the flag is set:
\* set_error("Operation Cancelled") and the thread returns
CompareCancelled ==
  /\ scan_pc = "compare"
  /\ scan_i < Len(file_info_list)
  /\ is_cancelled
  /\ progress' = set_error(progress, "Operation Cancelled")
  /\ scan_pc' = "done"
  /\ UNCHANGED <<ref_walk, scan_sections, file_info_list, is_cancelled, ana_dosya_isimleri,
                 ana_dosya_mapping, ana_dosya_patterns, scan_i, eslesen_dosyalar,
                 non_matched_files, matched_files, patVars, idxVars, copyVars,
                 placeVars, moreVars>>

\* the reference trees and target lists of the runs with cancellation
CancelWalks ==
  { <<>>, <<[dir |-> "d1", name |-> <<"a">>]>>,
    <<[dir |-> "d1", name |-> <<"a">>], [dir |-> "d1", name |-> <<"A", "_", "1", ".pdf">>]>> }

CancelTargets ==
  UNION { [1..k -> { <<"a">>, <<"A", "_", "1", ".pdf">> }] : k \in 0..MaxTargets }

\* scan_filenames_only called again on the manager after an earlier scan ended
scan_filenames_again ==
  /\ scan_pc = "done"
  /\ ~CopyRunning
  /\ file_info_list' \in CancelTargets
  /\ progress' = clear_logs(progress)
  /\ is_cancelled' = FALSE
  /\ scan_pc' = "started"
  /\ UNCHANGED <<ref_walk, scan_sections, ana_dosya_isimleri, ana_dosya_mapping,
                 ana_dosya_patterns, scan_i, eslesen_dosyalar, non_matched_files,
                 matched_files, patVars, idxVars, copyVars, placeVars, moreVars>>

CancelInit ==
  /\ MoreIdle
  /\ PlaceIdle
  /\ PatIdle
  /\ IdxIdle
  /\ ref_walk \in CancelWalks
  /\ scan_sections = <<>>
  /\ file_info_list \in CancelTargets
  /\ scan_pc = "idle"
  /\ is_cancelled = FALSE
  /\ ana_dosya_isimleri = {}
  /\ ana_dosya_mapping = <<>>
  /\ ana_dosya_patterns = <<>>
  /\ scan_i = 0
  /\ eslesen_dosyalar = <<>>
  /\ non_matched_files = <<>>
  /\ matched_files = <<>>
  /\ progress = ProgressInit
  /\ copy_pc = "idle"
  /\ dest_dir = [n \in ScanNames |-> "absent"]
  /\ dest_before = dest_dir
  /\ copyable_files = <<>>
  /\ copy_i = 0
  /\ copied = 0
  /\ errors = 0
  /\ copy_log = <<>>
  /\ cancel_called = FALSE

CancelNext ==
  \/ ScanNext
  \/ CopyNext
  \/ Scan_cancel
  \/ CompareCancelled
  \/ scan_filenames_again

SpecCancel == CancelInit /\ [][CancelNext]_vars

\* ------------------------------------------------- placement of uploaded files
\* a path is a sequence of components, a component a sequence of characters
RootDir == << <<"R">> >>

OutsideDir == << <<"X">> >>

Sec1 == RootDir \o << <<"S", "1">> >>

Sec2 == RootDir \o << <<"S", "2">> >>

NoSuchSection == RootDir \o << <<"S", "9">> >>

NoSuchRoot == << <<"Q">> >>

Desc1 == <<"D", "1">>

Desc2 == <<"D", "2">>

\* the directory trees the placement is run on: the description folder once in
\* each section, at two depths, beside the root, with and without the
\* two-character subfolder
PlaceTreeA ==
  { RootDir, Sec1, Sec2, OutsideDir,
    Sec1 \o <<Desc1>>,
    Sec2 \o << <<"k">> >>, Sec2 \o << <<"k">>, Desc1 >>,
    OutsideDir \o <<Desc1>> }

PlaceTreeB == PlaceTreeA \cup { Sec1 \o <<Desc1, <<"7", "3">> >> }

PlaceTreeC == { RootDir, Sec1, Sec2, Sec2 \o <<Desc2>> }

PlaceTrees == { PlaceTreeA, PlaceTreeB, PlaceTreeC }

\* uploaded file names
Upload73 == <<"9", ".", "G", "7", "3", ".", "0">>

UploadOneDot == <<"a", ".", "p">>

UploadNames == { Upload73, UploadOneDot }

\* self.mix_kodlari: code -> description; NoDescription for a code not in it
NoDescription == <<>>

mix_kodlari(mix_code) ==
  CASE mix_code = "M1" -> Desc1
    [] mix_code = "M2" -> Desc2
    [] OTHER -> NoDescription

MixCodes == {"M1", "M2", "M9"}

\* str.isalnum() on one character
IsAlnum(c) == c \notin {".", "_", "-"}

\* the positions of the dots
DotPositions(base) == { i \in 1..Len(base) : base[i] = "." }

\* dot_positions[1]
SecondDot(base) ==
  CHOOSE i \in DotPositions(base) :
    Cardinality({ j \in DotPositions(base) : j < i }) = 1

\* _extract_two_chars_before_second_dot; <<>> stands for None
extract_two_chars_before_second_dot(filename) ==
  IF Cardinality(DotPositions(filename)) < 2 THEN <<>>
  ELSE LET segment == SubSeq(filename, 1, SecondDot(filename) - 1)
           tail == SelectSeq(segment, IsAlnum)
       IN IF Len(tail) >= 2 THEN SubSeq(tail, Len(tail) - 1, Len(tail)) ELSE <<>>

\* p lies below start in the tree
IsBelow(p, start) == Len(p) > Len(start) /\ SubSeq(p, 1, Len(start)) = start

\* _find_description_folders: the sections that exist are the start roots (the
\* root itself when no section is given); every directory met by os.walk from a
\* start root that has a child named like the description yields that child
find_description_folders(dirs, root, description, allowed_sections) ==
  LET norm_sections == SelectSeq(allowed_sections, LAMBDA p : p \in dirs)
      start_roots == IF allowed_sections # <<>> THEN norm_sections ELSE <<root>>
  IN { p \in dirs : /\ p[Len(p)] = description
                    /\ \E k \in 1..Len(start_roots) : IsBelow(p, start_roots[k]) }

\* the orders in which a set of targets can come out of the walk
Orders(S) == { q \in [1..Cardinality(S) -> S] : \A x, y \in DOMAIN q : x # y => q[x] # q[y] }

\* update_index_for_file called by the placement right after a copy
IndexAfterUpdate(file, path) ==
  LET all_paths == LoadForUpdate(file)
  IN IF InSeq(path, all_paths) THEN file ELSE JsonFile(Append(all_paths, path))

NewUpload(name) == [from |-> "upload", name |-> name]

Earlier == [from |-> "earlier", name |-> <<>>]

\* a plausible slip: the destination is never found to exist
DestTaken_never(files, dest_file) == FALSE

\* dest_file.exists()
DestTaken(files, dest_file) == dest_file \in DOMAIN files

\* the loop of distribute_file_to_mix_folders over the targets; st carries the
\* file system, the index and the counters; mkdir fails on the targets in
\* mkdir_fail, copy2 on those in copy_fail
RECURSIVE DistributeLoop(_, _, _, _, _, _)
DistributeLoop(targets, subkey, final_name, mkdir_fail, copy_fail, st) ==
  IF targets = <<>> THEN st
  ELSE LET base_folder == Head(targets)
           dest_sub == Append(base_folder, subkey)
           dest_file == Append(dest_sub, final_name)
           made == dest_sub \notin st.dirs
           s1 == IF made /\ base_folder \notin mkdir_fail
                   THEN [st EXCEPT !.dirs = @ \cup {dest_sub}, !.dirs_created = @ + 1]
                   ELSE st
           s2 == IF made /\ base_folder \in mkdir_fail
                   THEN [s1 EXCEPT !.errors = @ + 1,
                                   !.details = Append(@, [target |-> base_folder,
                                                          outcome |-> "error"])]
                 ELSE IF DestTaken(s1.files, dest_file)
                   THEN [s1 EXCEPT !.exists = @ + 1,
                                   !.details = Append(@, [target |-> base_folder,
                                                          outcome |-> "exists"])]
                 ELSE IF base_folder \in copy_fail
                   THEN [s1 EXCEPT !.errors = @ + 1,
                                   !.details = Append(@, [target |-> base_folder,
                                                          outcome |-> "error"])]
                 ELSE [s1 EXCEPT !.files = [p \in DOMAIN s1.files \cup {dest_file} |->
                                              IF p = dest_file THEN NewUpload(final_name)
                                              ELSE s1.files[p]],
                                 !.index = IndexAfterUpdate(@, dest_file),
                                 !.files_copied = @ + 1,
                                 !.details = Append(@, [target |-> base_folder,
                                                        outcome |-> "copied"])]
       IN DistributeLoop(Tail(targets), subkey, final_name, mkdir_fail, copy_fail, s2)

\* what distribute_file_to_mix_folders returns without touching anything
Refused(st, error) ==
  [st EXCEPT !.success = FALSE, !.error = error]

\* distribute_file_to_mix_folders on the state st = (file system, index), with
\* the targets in the order `order` picks among those found
DistributeStart(dirs, files, index) ==
  [dirs |-> dirs, files |-> files, index |-> index, success |-> TRUE,
   error |-> NoValue, targets_found |-> 0, files_copied |-> 0, dirs_created |-> 0,
   exists |-> 0, errors |-> 0, details |-> <<>>]

Targets(dirs, ana_path, original_filename, mix_code, allowed_sections) ==
  find_description_folders(dirs, ana_path, mix_kodlari(mix_code), allowed_sections)

distribute_file_to_mix_folders(st, ana_path, original_filename, mix_code, order, mkdir_fail, copy_fail) ==
  LET description == mix_kodlari(mix_code)
      subkey == extract_two_chars_before_second_dot(original_filename)
  IN IF ana_path \notin st.dirs THEN Refused(st, "Reference folder not found")
     ELSE IF description = NoDescription THEN Refused(st, "Unknown MIX code")
     ELSE IF subkey = <<>> THEN Refused(st, "Cannot extract subfolder key")
     ELSE IF order = <<>> THEN Refused(st, "No folders found")
     ELSE DistributeLoop(order, subkey, original_filename, mkdir_fail, copy_fail,
                         [st EXCEPT !.targets_found = Len(order)])

\* the inputs of one upload-and-place request
UploadLists == UNION { [1..k -> UploadNames] : k \in 0..MaxUploads }

MixSelections == { <<>>, <<"M1">>, <<"M9">>, <<"M1", "M2">> }

SectionSelections == { <<>>, <<Sec1>>, <<Sec1, Sec2>>, <<OutsideDir>>, <<NoSuchSection>> }

\* files found in the tree before the request: the upload's name already placed
\* in the subfolder of the first section, when that subfolder is there
EarlierFiles(dirs) ==
  LET dest_sub == Sec1 \o <<Desc1, <<"7", "3">> >>
  IN IF dest_sub \in dirs
       THEN [p \in { Append(dest_sub, Upload73) } |-> Earlier]
       ELSE <<>>

PlaceInit ==
  /\ MoreIdle
  /\ PatIdle
  /\ ScanIdle
  /\ IdxIdle
  /\ CopyIdle
  /\ fs_dirs \in PlaceTrees
  /\ fs_files = EarlierFiles(fs_dirs)
  /\ files_before = fs_files
  /\ dirs_before = fs_dirs
  /\ place_pc = "idle"
  /\ place_cancelled = FALSE
  /\ place_progress = ProgressInit
  /\ ana_klasor \in {RootDir, NoSuchRoot}
  /\ uploaded_files \in UploadLists
  /\ selected_mix_codes \in MixSelections
  /\ selected_sections \in SectionSelections
  /\ place_i = 0
  /\ place_m = 0
  /\ place_overall = OverallInit
  /\ place_res = NoResult

\* POST /api/file-add/upload-and-place: a request without mix codes, sections or
\* files is answered with 400; otherwise the integration thread is started
upload_and_place_files ==
  /\ place_pc = "idle"
  /\ place_pc' = IF selected_mix_codes = <<>> \/ selected_sections = <<>>
                    \/ uploaded_files = <<>>
                   THEN "rejected" ELSE "started"
  /\ UNCHANGED <<fs_dirs, fs_files, files_before, dirs_before, place_cancelled,
                 place_progress, ana_klasor, uploaded_files, selected_mix_codes,
                 selected_sections, place_i, place_m, place_overall, place_res,
                 patVars, scanVars, idxVars, copyVars, moreVars>>

\* WebFileAddManager.cancel
FileAdd_cancel ==
  /\ place_pc \in {"started", "file_top", "mixes"}
  /\ ~place_cancelled
  /\ place_cancelled' = TRUE
  /\ UNCHANGED <<fs_dirs, fs_files, files_before, dirs_before, place_pc,
                 place_progress, ana_klasor, uploaded_files, selected_mix_codes,
                 selected_sections, place_i, place_m, place_overall, place_res,
                 patVars, scanVars, idxVars, copyVars, moreVars>>

\* add_uploaded_files_manual up to the loop: clear_logs, the flag is reset,
\* set_ana_klasor (its result is not looked at), progress initialised
PlacePrepare ==
  /\ place_pc = "started"
  /\ place_cancelled' = FALSE
  /\ place_progress' = update_progress(clear_logs(place_progress), 0, 0,
                                       Max(1, Len(uploaded_files)),
                                       "Preparing integration...")
  /\ place_overall' = OverallInit
  /\ place_i' = 0
  /\ place_m' = 0
  /\ place_pc' = IF selected_mix_codes = <<>> THEN "done" ELSE "file_top"
  /\ UNCHANGED <<fs_dirs, fs_files, files_before, dirs_before, ana_klasor,
                 uploaded_files, selected_mix_codes, selected_sections, place_res,
                 patVars, scanVars, idxVars, copyVars, moreVars>>

\* the top of the loop over the uploaded files: the cancellation check, then the
\* status line of the file
PlaceFileTop ==
  /\ place_pc = "file_top"
  /\ place_i < Len(uploaded_files)
  /\ IF place_cancelled
       THEN /\ place_progress' = set_error(place_progress, "Operation Cancelled")
            /\ place_pc' = "done"
       ELSE /\ place_progress' = update_progress(place_progress, place_progress.percentage,
                                                 place_i, Max(1, Len(uploaded_files)),
                                                 "Adding")
            /\ place_pc' = "mixes"
  /\ place_m' = 0
  /\ UNCHANGED <<fs_dirs, fs_files, files_before, dirs_before, place_cancelled,
                 ana_klasor, uploaded_files, selected_mix_codes, selected_sections,
                 place_i, place_overall, place_res, patVars, scanVars, idxVars,
                 copyVars, moreVars>>

\* one call of distribute_file_to_mix_folders from the inner loop over the
\* selected mix codes, and the totals it adds to
PlaceDistribute ==
  /\ place_pc = "mixes"
  /\ place_m < Len(selected_mix_codes)
  /\ LET orig_name == uploaded_files[place_i + 1]
         mix_code == selected_mix_codes[place_m + 1]
         found == Targets(fs_dirs, ana_klasor, orig_name, mix_code, selected_sections)
     IN \E order \in Orders(found), mkdir_fail \in SUBSET found, copy_fail \in SUBSET found :
          LET res == distribute_file_to_mix_folders(
                       DistributeStart(fs_dirs, fs_files, index_file), ana_klasor,
                       orig_name, mix_code, order, mkdir_fail, copy_fail)
          IN /\ fs_dirs' = res.dirs
             /\ fs_files' = res.files
             /\ index_file' = res.index
             /\ place_res' = [success |-> res.success, error |-> res.error,
                              targets_found |-> res.targets_found,
                              files_copied |-> res.files_copied,
                              dirs_created |-> res.dirs_created, exists |-> res.exists,
                              errors |-> res.errors, details |-> res.details,
                              subkey |-> extract_two_chars_before_second_dot(orig_name),
                              filename |-> orig_name, mix_code |-> mix_code]
             /\ place_overall' =
                  IF res.success
                    THEN [total_copies |-> place_overall.total_copies + res.files_copied,
                          total_dirs_created |->
                            place_overall.total_dirs_created + res.dirs_created,
                          total_errors |-> place_overall.total_errors + res.errors,
                          total_exists |-> place_overall.total_exists + res.exists]
                    ELSE [place_overall EXCEPT !.total_errors = @ + 1]
  /\ files_before' = fs_files
  /\ dirs_before' = fs_dirs
  /\ place_m' = place_m + 1
  /\ UNCHANGED <<place_pc, place_cancelled, place_progress, ana_klasor, uploaded_files,
                 selected_mix_codes, selected_sections, place_i, temp_file,
                 index_lock, idx_pc, idx_op, idx_arg, idx_paths, idx_fd, build_pc,
                 build_running, build_paths, read_seen, patVars, scanVars, copyVars, moreVars>>

\* the end of one iteration over the uploaded files: processed += 1, percentage
PlaceFileEnd ==
  /\ place_pc = "mixes"
  /\ place_m = Len(selected_mix_codes)
  /\ place_i' = place_i + 1
  /\ place_progress' = update_progress(place_progress,
                         ((place_i + 1) * 100) \div Max(1, Len(uploaded_files)),
                         place_i + 1, Max(1, Len(uploaded_files)), "Adding")
  /\ place_pc' = "file_top"
  /\ UNCHANGED <<fs_dirs, fs_files, files_before, dirs_before, place_cancelled,
                 ana_klasor, uploaded_files, selected_mix_codes, selected_sections,
                 place_m, place_overall, place_res, patVars, scanVars, idxVars,
                 copyVars, moreVars>>

\* after the loop: summary, report file, set_completed
PlaceFinish ==
  /\ place_pc = "file_top"
  /\ place_i = Len(uploaded_files)
  /\ \E log_ok \in BOOLEAN :
       place_progress' = set_completed(create_log_file(place_progress, log_ok))
  /\ place_pc' = "done"
  /\ UNCHANGED <<fs_dirs, fs_files, files_before, dirs_before, place_cancelled,
                 ana_klasor, uploaded_files, selected_mix_codes, selected_sections,
                 place_i, place_m, place_overall, place_res, patVars, scanVars,
                 idxVars, copyVars, moreVars>>

PlaceNext ==
  \/ upload_and_place_files
  \/ FileAdd_cancel
  \/ PlacePrepare
  \/ PlaceFileTop
  \/ PlaceDistribute
  \/ PlaceFileEnd
  \/ PlaceFinish

SpecPlace == PlaceInit /\ [][PlaceNext]_vars

\* ------------------------------------------------ claims about the copy flows
\* the entries of copyable_files kept for one canonical base name
KeptFor(base) ==
  { k \in 1..Len(copyable_files) :
      CanonicalBase(copyable_files[k].source_path.name) = base }

\* C10 (as stated): in the copy flows, when destination/<entry name> exists before
\* the entry is copied, the existing file stays as it was and the entry is
\* reported as "already exists", not as copied.
C10_ExistingDestinationKept ==
  \A k \in 1..Len(copy_log) :
    dest_before[copy_log[k].name] # "absent" =>
      /\ dest_dir[copy_log[k].name] = dest_before[copy_log[k].name]
      /\ copy_log[k].outcome = "already exists"

\* C11 (as stated): before copying, the matched set is reduced to exactly one
\* entry per canonical base name, and among the matched files that share a
\* canonical base name the entry kept is the one modified last.
C11_DedupKeepsNewest ==
  copy_pc = "matched_copying" =>
    \A j \in 1..Len(matched_files) :
      LET base == CanonicalBase(matched_files[j].name)
      IN /\ Cardinality(KeptFor(base)) = 1
         /\ \A k \in KeptFor(base) :
              st_mtime(copyable_files[k].source_path) >= st_mtime(matched_files[j])

AllItemsFailed ==
  /\ copy_pc = "matched_done"
  /\ copyable_files # <<>>
  /\ copied = 0

DestFileOf(k) ==
  place_res.details[k].target \o <<place_res.subkey, place_res.filename>>

OutcomeCount(outcome) ==
  Cardinality({ k \in 1..Len(place_res.details) : place_res.details[k].outcome = outcome })

\* C14: distribute_file_to_mix_folders never overwrites: a target whose
\* destination file exists when it is processed keeps that file as it was, gets
\* no copy and no backup, and is counted in 'exists' and not in 'files_copied'
C14_NeverOverwrites ==
  /\ \A k \in 1..Len(place_res.details) :
       DestFileOf(k) \in DOMAIN files_before =>
         /\ place_res.details[k].outcome = "exists"
         /\ DestFileOf(k) \in DOMAIN fs_files
         /\ fs_files[DestFileOf(k)] = files_before[DestFileOf(k)]
  /\ place_res.exists = OutcomeCount("exists")
  /\ place_res.files_copied = OutcomeCount("copied")
  /\ \A p \in DOMAIN fs_files \ DOMAIN files_before :
       \E k \in 1..Len(place_res.details) :
         p = DestFileOf(k) /\ place_res.details[k].outcome = "copied"

\* one call met an existing destination file in one target and copied into another
C14_Witness ==
  /\ place_res.success
  /\ place_res.exists = 1
  /\ place_res.files_copied = 1
  /\ \E k \in 1..Len(place_res.details) : DestFileOf(k) \in DOMAIN files_before

\* the directories the file is to be fanned out to: under the reference root,
\* within the allowed sections when sections are given, named like the description
ExpectedTargets ==
  { p \in dirs_before :
      /\ p[Len(p)] = mix_kodlari(place_res.mix_code)
      /\ IsBelow(p, ana_klasor)
      /\ selected_sections # <<>> =>
           \E k \in 1..Len(selected_sections) : IsBelow(p, selected_sections[k]) }

\* C15: a successful distribute_file_to_mix_folders finds exactly the
\* directories under the reference root, within the allowed sections, named like
\* the mix description; each target without an error has the two-character
\* subfolder; without errors files_copied is the number of targets whose
\* destination file did not exist; targets_found = files_copied + exists + errors
C15_FanOut ==
  place_res.success =>
    /\ place_res.targets_found = Cardinality(ExpectedTargets)
    /\ \A k \in 1..Len(place_res.details) :
         place_res.details[k].outcome # "error" =>
           Append(place_res.details[k].target, place_res.subkey) \in fs_dirs
    /\ place_res.errors = 0 =>
         place_res.files_copied =
           Cardinality({ p \in ExpectedTargets :
                           p \o <<place_res.subkey, place_res.filename>>
                             \notin DOMAIN files_before })
    /\ place_res.targets_found =
         place_res.files_copied + place_res.exists + place_res.errors

\* ---------------------------------------------- claims about cancellation

\* C16: the cancellation flag is checked at the top of every per-item loop
\* iteration: once cancel() was called on a manager whose operation is running,
\* that operation starts no further item, in the comparison loop of the scan, in
\* the copy loops of copy_matched_files and copy_non_matched_files and in the
\* placement loop over the uploaded files
C16_NoItemAfterCancel ==
  [][ /\ (scan_pc = "compare" /\ is_cancelled) => scan_i' = scan_i
      /\ (CopyRunning /\ cancel_called) => copy_i' = copy_i
      /\ (place_pc = "file_top" /\ place_cancelled) => place_pc' # "mixes" ]_vars

\* the step in which the comparison loop observes the cancellation
ScanCancelObserved == scan_pc = "compare" /\ is_cancelled /\ scan_pc' = "done" /\ scan_i < Len(file_info_list)

\* C17: a cancelled operation is reported distinctly from a failed one: when the
\* cancellation is observed the progress record is not put in the state a broken
\* operation produces (status 'Error' with error set)
C17_CancelledIsNotFailed ==
  [][ ScanCancelObserved => ~(progress'.status = "Error" /\ progress'.error # NoValue) ]_vars

\* the progress field holds the number n (a field never written holds NoValue)
Reports(field, n) == ToString(field) = ToString(n)

\* C18: a scan cancelled after k items reports the counts of these k items
\* (matched and non-matched), never metrics left over from an earlier scan
C18_CancelledCounts ==
  [][ ScanCancelObserved =>
        /\ progress'.current = scan_i
        /\ Reports(progress'.matched_groups, Cardinality(UniqueTargetFiles(eslesen_dosyalar)))
        /\ Reports(progress'.matched_total, SumMatchTypes(eslesen_dosyalar))
        /\ Reports(progress'.non_matched_count, Len(non_matched_files)) ]_vars

\* ----------------------------------------------- claims about input errors

\* the request names a reference root that is not there, no file, or a mix code
\* the code table does not hold
PlaceInputError ==
  \/ ana_klasor \notin fs_dirs
  \/ uploaded_files = <<>>
  \/ \E k \in 1..Len(selected_mix_codes) : mix_kodlari(selected_mix_codes[k]) = NoDescription

\* C19: an input error (reference root missing, empty target list, mix code not
\* in the code table) is detected before any walk and the operation never runs:
\* no worker thread, no item processed, for the placement of uploads and for
\* the scan
C19_InputErrorNeverRuns ==
  /\ PlaceInputError => place_pc \in {"off", "idle", "rejected"}
  /\ (scan_pc # "off" /\ file_info_list = <<>>) => scan_pc = "idle"

\* ------------------------------------------- claims about the section list

\* the files the index of the scan holds
IndexedFiles ==
  UNION { { ana_dosya_mapping[key][k] : k \in 1..Len(ana_dosya_mapping[key]) } :
            key \in DOMAIN ana_dosya_mapping }
  \cup UNION { { ana_dosya_patterns[key][k] : k \in 1..Len(ana_dosya_patterns[key]) } :
                 key \in DOMAIN ana_dosya_patterns }

\* C20: when a section list is supplied to a scan, the sections that fail the
\* validation are dropped and the index is only narrowed: whatever the list
\* (also one where every entry is invalid), the index holds only files located
\* under sections that passed the validation
C20_IndexOnlyValidSections ==
  (scan_pc \in {"compare", "done"} /\ scan_sections # <<>>) =>
    \A file \in IndexedFiles :
      \E k \in 1..Len(scan_sections) :
        SectionValid(scan_sections[k]) /\ file.dir = scan_sections[k]

\* the components of a posix path
RECURSIVE PathComponents(_)
PathComponents(str) ==
  IF str = <<>> THEN <<>>
  ELSE LET cut == IF \E i \in 1..Len(str) : str[i] = "/"
                    THEN CHOOSE i \in 1..Len(str) :
                           str[i] = "/" /\ \A j \in 1..(i - 1) : str[j] # "/"
                    ELSE Len(str) + 1
       IN <<SubSeq(str, 1, cut - 1)>> \o PathComponents(SubSeq(str, cut + 1, Len(str)))

\* the directory is the reference root or lies below it in the tree
RootOrDescendant(sp) ==
  LET root == PathComponents(RefRootPosix)
      path == PathComponents(as_posix(sp))
  IN Len(path) >= Len(root) /\ SubSeq(path, 1, Len(root)) = root

\* C21: every section accepted for indexing exists, is a directory and is the
\* reference root or a descendant of it; a directory outside the root, such as
\* a sibling whose path begins with the root's path string, is never accepted
C21_AcceptedSectionsUnderRoot ==
  scan_pc \in {"compare", "done"} =>
    \A k \in 1..Len(SectionPaths(scan_sections)) :
      /\ SectionPaths(scan_sections)[k] \in ExistingDirs
      /\ RootOrDescendant(SectionPaths(scan_sections)[k])

\* the bases the index of the current scan is built from
ScanBases ==
  IF SectionPaths(scan_sections) # <<>> THEN SectionPaths(scan_sections) ELSE <<RootBase>>

\* the distinct files below these bases
FilesUnderBases ==
  { ref_walk[k] : k \in { i \in 1..Len(ref_walk) :
                            \E b \in 1..Len(ScanBases) : UnderBase(ref_walk[i], ScanBases[b]) } }

\* how often the file is listed under the key
Occurrences(m, key, file) ==
  IF key \in DOMAIN m
    THEN Cardinality({ k \in 1..Len(m[key]) : m[key][k] = file })
    ELSE 0

\* C23: index building visits every file under the accepted sections (or the
\* root) exactly once, also with duplicated sections: each file has exactly one
\* entry under its lowercased name and one under its pattern, and the returned
\* count is the number of distinct files
C23_EachFileIndexedOnce ==
  scan_pc \in {"compare", "done"} =>
    /\ \A file \in FilesUnderBases :
         /\ Occurrences(ana_dosya_mapping, Lower(file.name), file) = 1
         /\ Occurrences(ana_dosya_patterns, extract_file_pattern(file.name), file) = 1
    /\ index_main_folder_fast(ref_walk, SectionPaths(scan_sections)).total_files
         = Cardinality(FilesUnderBases)

\* C28: distribute_file_to_mix_folders creates directories and writes files only
\* inside the reference root: every directory the request created, every file it
\* wrote and every target it copied into is a descendant of the reference root
C28_WritesOnlyUnderRoot ==
  /\ \A d \in fs_dirs \ dirs_before : IsBelow(d, ana_klasor)
  /\ \A f \in DOMAIN fs_files \ DOMAIN files_before : IsBelow(f, ana_klasor)
  /\ \A k \in 1..Len(place_res.details) :
       place_res.details[k].outcome = "copied" =>
         IsBelow(place_res.details[k].target, ana_klasor)

\* ------------------------------------- claims about the update manager
\* WebUpdateManager.extract_file_pattern: only a name ending in '.pdf' is
\* touched; '_<digits>' before the extension is removed, the extension stays,
\* and a leading 'i' is dropped when a digit follows it
update_extract_file_pattern(filename) ==
  LET n0 == Lower(filename)
      n1 == IF EndsWithPdf(n0)
              THEN StripNumSuffix(SubSeq(n0, 1, Len(n0) - 1)) \o <<".pdf">>
              ELSE n0
  IN IF EndsWithPdf(n0) /\ StartsWithI(n1) /\ CharLen(n1) > 1 /\ n1[2] \in Digits
       THEN Tail(n1) ELSE n1

\* the loop of WebUpdateManager._index_main_folder_fast
RECURSIVE UpdateIndexFold(_, _)
UpdateIndexFold(walk, acc) ==
  IF walk = <<>> THEN acc
  ELSE LET p == Head(walk)
           name_lower == Lower(p.name)
           pattern == update_extract_file_pattern(p.name)
       IN UpdateIndexFold(Tail(walk),
            [isimleri |-> acc.isimleri \cup {name_lower},
             mapping |-> AppendAt(acc.mapping, name_lower, p),
             patterns |-> AppendAt(acc.patterns, pattern, p),
             total_files |-> acc.total_files + 1])

\* WebUpdateManager._index_main_folder_fast
update_index_main_folder_fast(walk, section_paths) ==
  LET bases == IF section_paths # <<>> THEN section_paths ELSE <<RootBase>>
  IN UpdateIndexFold(fast_iter_files(walk, bases),
                     [isimleri |-> {}, mapping |-> <<>>, patterns |-> <<>>, total_files |-> 0])

\* one lookup of _update_thread: every candidate not yet listed is appended
RECURSIVE UpdateGather(_, _)
UpdateGather(match_locations, cands) ==
  IF cands = <<>> THEN match_locations
  ELSE UpdateGather(IF InSeq(Head(cands), match_locations) THEN match_locations
                    ELSE Append(match_locations, Head(cands)),
                    Tail(cands))

\* the match_locations _update_thread overwrites for one update file
update_match_locations(filename, idx) ==
  LET dosya_adi_lower == Lower(filename)
      target_pattern == update_extract_file_pattern(filename)
      m1 == UpdateGather(<<>>, ExactCands(dosya_adi_lower, idx.isimleri, idx.mapping))
      m2 == UpdateGather(m1, IRemovedCands(dosya_adi_lower, idx.isimleri, idx.mapping))
      m3 == UpdateGather(m2, IAddedCands(dosya_adi_lower, idx.isimleri, idx.mapping))
  IN UpdateGather(m3, PatternCands(target_pattern, idx.patterns))

SeqRange(q) == { q[k] : k \in 1..Len(q) }

\* the reference files an update run over the scan's tree and sections would
\* overwrite for the target name
UpdateOverwrites(filename) ==
  SeqRange(update_match_locations(filename,
             update_index_main_folder_fast(ref_walk, SectionPaths(scan_sections))))

\* the records the finished scan holds for the target name
ScanRecords(filename) ==
  { r \in 1..Len(eslesen_dosyalar) : eslesen_dosyalar[r].target_file.name = filename }

\* C30: the scan manager and the update manager agree on matching: over the same
\* reference tree, a target is overwritten by the update exactly when the scan
\* reports it as matched, and the files overwritten are the match locations the
\* scan reports for it
C30_ScanAndUpdateAgree ==
  (scan_pc = "done" /\ ~is_cancelled) =>
    \A k \in 1..Len(file_info_list) :
      /\ (UpdateOverwrites(file_info_list[k]) # {}) <=> (ScanRecords(file_info_list[k]) # {})
      /\ \A r \in ScanRecords(file_info_list[k]) :
           SeqRange(eslesen_dosyalar[r].match_locations) = UpdateOverwrites(file_info_list[k])

\* ----------------------------------- claims about the operation lifecycle
\* C26: the terminal states of an operation are mutually exclusive: in every
\* reachable state of the progress record, completed = True and error # None
\* never hold together
C26_TerminalStatesExclusive ==
  ~(progress.completed /\ progress.error # NoValue)

\* ------------------------------------------------ index build workers
MaxBuilds == 3

NewBuilder == [pc |-> "started", paths |-> <<>>, cancelled |-> FALSE, wrote |-> FALSE]

\* the thread has set running and has not yet left _build_index_thread
BuilderActive(b) == builders[b].pc \in {"scanning", "writing", "written"}

BuildInit ==
  /\ PatIdle
  /\ ScanIdle
  /\ CopyIdle
  /\ PlaceIdle
  /\ index_file \in IndexFiles
  /\ temp_file = NoFile
  /\ index_lock = [t \in Callers |-> FALSE]
  /\ idx_pc = [t \in Callers |-> "off"]
  /\ idx_op = [t \in Callers |-> NoValue]
  /\ idx_arg = [t \in Callers |-> NoValue]
  /\ idx_paths = [t \in Callers |-> <<>>]
  /\ idx_fd = [t \in Callers |-> "none"]
  /\ build_pc = "off"
  /\ build_running = FALSE
  /\ build_paths = <<>>
  /\ read_seen = NotRead
  /\ workers = <<>>
  /\ excel_import_aktif = FALSE
  /\ manuel_secim_var = FALSE
  /\ excel_dosya_eslesmeleri = <<>>
  /\ secili_mix_kodlari = {}
  /\ mode_call = NoCall
  /\ PANDAS_AVAILABLE = TRUE
  /\ builders = <<>>
  /\ last_completed = NoValue
  /\ idx_entry = [t \in Callers |-> <<>>]
  /\ idx_hist = <<>>

\* build_search_index: refused while indexing_progress['running'] is set;
\* otherwise the thread is started (running is set by the thread, later)
StartBuild ==
  /\ Len(builders) < MaxBuilds
  /\ builders' = Append(builders, IF build_running
                                    THEN [NewBuilder EXCEPT !.pc = "refused"]
                                    ELSE NewBuilder)
  /\ UNCHANGED <<index_file, temp_file, index_lock, idx_pc, idx_op, idx_arg, idx_paths,
                 idx_fd, build_pc, build_running, build_paths, read_seen, last_completed,
                 workers, modeVars, histVars, patVars, scanVars, copyVars, placeVars>>

\* _build_index_thread, first lines: running = True
BuilderBegin(b) ==
  /\ builders[b].pc = "started"
  /\ build_running' = TRUE
  /\ builders' = [builders EXCEPT ![b].pc = "scanning"]
  /\ UNCHANGED <<index_file, temp_file, index_lock, idx_pc, idx_op, idx_arg, idx_paths,
                 idx_fd, build_pc, build_paths, read_seen, last_completed,
                 workers, modeVars, histVars, patVars, scanVars, copyVars, placeVars>>

\* cancel_index_build: clears running when it is set; the builds that were
\* running at that moment are the cancelled ones
CancelBuild ==
  /\ build_running
  /\ build_running' = FALSE
  /\ builders' = [b \in DOMAIN builders |->
                    IF BuilderActive(b) THEN [builders[b] EXCEPT !.cancelled = TRUE]
                    ELSE builders[b]]
  /\ UNCHANGED <<index_file, temp_file, index_lock, idx_pc, idx_op, idx_arg, idx_paths,
                 idx_fd, build_pc, build_paths, read_seen, last_completed,
                 workers, modeVars, histVars, patVars, scanVars, copyVars, placeVars>>

\* phase 1: the walk; a thread that finds running cleared returns (finally:
\* running = False)
BuilderDiscover(b) ==
  /\ builders[b].pc = "scanning"
  /\ IF build_running
       THEN /\ \E l \in BuildLists :
                 builders' = [builders EXCEPT ![b].pc = "writing", ![b].paths = l]
            /\ UNCHANGED build_running
       ELSE /\ builders' = [builders EXCEPT ![b].pc = "finished"]
            /\ build_running' = FALSE
  /\ UNCHANGED <<index_file, temp_file, index_lock, idx_pc, idx_op, idx_arg, idx_paths,
                 idx_fd, build_pc, build_paths, read_seen, last_completed,
                 workers, modeVars, histVars, patVars, scanVars, copyVars, placeVars>>

\* phase 2: search_index.tmp is opened for writing and filled; a thread that
\* finds running cleared in the loop returns and leaves the file unfinished
BuilderWriteTemp(b) ==
  /\ builders[b].pc = "writing"
  /\ IF build_running
       THEN /\ temp_file' = JsonFile(builders[b].paths)
            /\ builders' = [builders EXCEPT ![b].pc = "written"]
            /\ UNCHANGED build_running
       ELSE /\ temp_file' = [exists |-> TRUE, paths |-> <<>>, text |-> "broken"]
            /\ builders' = [builders EXCEPT ![b].pc = "finished"]
            /\ build_running' = FALSE
  /\ UNCHANGED <<index_file, index_lock, idx_pc, idx_op, idx_arg, idx_paths,
                 idx_fd, build_pc, build_paths, read_seen, last_completed,
                 workers, modeVars, histVars, patVars, scanVars, copyVars, placeVars>>

\* os.replace(temp_index_file, self.index_file) and last_completed = end_time;
\* os.replace raises when another thread has moved the temporary file away;
\* finally: running = False
BuilderReplace(b) ==
  /\ builders[b].pc = "written"
  /\ IF temp_file.exists
       THEN /\ index_file' = temp_file
            /\ temp_file' = NoFile
            /\ last_completed' = b
            /\ builders' = [builders EXCEPT ![b].pc = "finished", ![b].wrote = TRUE]
       ELSE /\ builders' = [builders EXCEPT ![b].pc = "finished"]
            /\ UNCHANGED <<index_file, temp_file, last_completed>>
  /\ build_running' = FALSE
  /\ UNCHANGED <<index_lock, idx_pc, idx_op, idx_arg, idx_paths,
                 idx_fd, build_pc, build_paths, read_seen,
                 workers, modeVars, histVars, patVars, scanVars, copyVars, placeVars>>

BuildNext ==
  \/ StartBuild
  \/ CancelBuild
  \/ \E b \in DOMAIN builders : BuilderBegin(b)
  \/ \E b \in DOMAIN builders : BuilderDiscover(b)
  \/ \E b \in DOMAIN builders : BuilderWriteTemp(b)
  \/ \E b \in DOMAIN builders : BuilderReplace(b)

SpecBuild == BuildInit /\ [][BuildNext]_vars

\* C27: at most one index-build worker runs at a time, and a build that was
\* cancelled writes nothing to search_index.json and does not update
\* last_completed, even if a new build is started right after the cancel
C27_OneBuildCancelledWritesNothing ==
  /\ Cardinality({ b \in DOMAIN builders : BuilderActive(b) }) <= 1
  /\ \A b \in DOMAIN builders : builders[b].cancelled => ~builders[b].wrote

\* ------------------------------- index calls made one after the other
MaxCalls == 3

\* the call has returned: the caller is free for its next call
IdxReturn(t) ==
  /\ idx_pc[t] = "done"
  /\ Len(idx_hist) < MaxCalls
  /\ idx_hist' = Append(idx_hist, [op |-> idx_op[t], arg |-> idx_arg[t],
                                   before |-> idx_entry[t],
                                   after |-> LoadForUpdate(index_file)])
  /\ idx_pc' = [idx_pc EXCEPT ![t] = "idle"]
  /\ UNCHANGED <<index_file, temp_file, index_lock, idx_op, idx_arg, idx_paths, idx_fd,
                 build_pc, build_running, build_paths, read_seen, idx_entry, workers,
                 modeVars, buildVars, patVars, scanVars, copyVars, placeVars>>

\* a single caller on a readable index
SeqInit ==
  /\ PatIdle
  /\ ScanIdle
  /\ CopyIdle
  /\ PlaceIdle
  /\ index_file \in IndexFiles
  /\ temp_file = NoFile
  /\ index_lock = [t \in Callers |-> FALSE]
  /\ idx_pc = [t \in Callers |-> IF t = "t1" THEN "idle" ELSE "off"]
  /\ idx_op = [t \in Callers |-> NoValue]
  /\ idx_arg = [t \in Callers |-> NoValue]
  /\ idx_paths = [t \in Callers |-> <<>>]
  /\ idx_fd = [t \in Callers |-> "none"]
  /\ build_pc = "off"
  /\ build_running = FALSE
  /\ build_paths = <<>>
  /\ read_seen = NotRead
  /\ workers = <<>>
  /\ excel_import_aktif = FALSE
  /\ manuel_secim_var = FALSE
  /\ excel_dosya_eslesmeleri = <<>>
  /\ secili_mix_kodlari = {}
  /\ mode_call = NoCall
  /\ PANDAS_AVAILABLE = TRUE
  /\ builders = <<>>
  /\ last_completed = NoValue
  /\ idx_entry = [t \in Callers |-> <<>>]
  /\ idx_hist = <<>>

SeqNext ==
  \/ \E t \in Callers, p \in IdxPaths : update_index_for_file(t, p)
  \/ \E t \in Callers, p \in IdxPaths : remove_file_from_index(t, p)
  \/ \E t \in Callers : IdxRead(t)
  \/ \E t \in Callers : IdxOpenW(t)
  \/ \E t \in Callers : IdxFlush(t)
  \/ \E t \in Callers : IdxClose(t)
  \/ \E t \in Callers : IdxReturn(t)

SpecIndexSeq == SeqInit /\ [][SeqNext]_vars

\* C24: update_index_for_file(p) is idempotent and order-preserving on a
\* readable index: after it returns the persisted list contains p and all other
\* entries keep their relative order, a second call leaves the list unchanged,
\* and remove_file_from_index(p) afterwards leaves a list without p that equals
\* the original list when p was absent before
C24_UpdateIdempotentRemoveInverts ==
  /\ \A k \in 1..Len(idx_hist) :
       idx_hist[k].op = "update" =>
         /\ InSeq(idx_hist[k].arg, idx_hist[k].after)
         /\ Without(idx_hist[k].after, idx_hist[k].arg)
              = Without(idx_hist[k].before, idx_hist[k].arg)
  /\ \A k \in 1..(Len(idx_hist) - 1) :
       /\ (idx_hist[k].op = "update" /\ idx_hist[k + 1].op = "update"
           /\ idx_hist[k + 1].arg = idx_hist[k].arg)
            => idx_hist[k + 1].after = idx_hist[k].after
       /\ (idx_hist[k].op = "update" /\ idx_hist[k + 1].op = "remove"
           /\ idx_hist[k + 1].arg = idx_hist[k].arg)
            => /\ ~InSeq(idx_hist[k].arg, idx_hist[k + 1].after)
               /\ ~InSeq(idx_hist[k].arg, idx_hist[k].before)
                    => idx_hist[k + 1].after = idx_hist[k].before

\* the same path was added, added again and removed, on an index that held
\* another path and not this one
C24_Witness ==
  /\ Len(idx_hist) = 3
  /\ idx_hist[1].op = "update" /\ idx_hist[2].op = "update" /\ idx_hist[3].op = "remove"
  /\ idx_hist[2].arg = idx_hist[1].arg /\ idx_hist[3].arg = idx_hist[1].arg
  /\ idx_hist[1].before # <<>>
  /\ ~InSeq(idx_hist[1].arg, idx_hist[1].before)

\* C25: the persisted index only grows under update_index_for_file: once the
\* calls have returned, with only update_index_for_file calls having run (no
\* removal, no build), every path that was in the persisted list when a call
\* was entered is still in the list
C25_IndexOnlyGrows ==
  OnlyAppendersRan =>
    \A t \in Callers : \A k \in 1..Len(idx_entry[t]) :
      InSeq(idx_entry[t][k], LoadForUpdate(index_file))

\* ------------------------------------- modes of the file-add manager
MaxCodes == 2

\* the selected_codes lists a manual-selection request can carry
CodeLists == UNION { [1..k -> MixCodes] : k \in 0..MaxCodes }

ExcelFiles == {"f1", "f2"}

\* dosya_mix_eslesmesi: the files of the target folder the sheet assigns codes to
ExcelMappings ==
  UNION { [F -> (SUBSET {"M1", "M2"}) \ {{}}] : F \in SUBSET ExcelFiles }

\* how far excel_mix_import gets when neither pandas nor the mode stops it
ImportOutcomes == {"unreadable", "no folder", "no files", "fails midway", "ok"}

ModeInit ==
  /\ PatIdle
  /\ ScanIdle
  /\ IdxIdle
  /\ CopyIdle
  /\ PlaceIdle
  /\ workers = <<>>
  /\ excel_import_aktif = FALSE
  /\ manuel_secim_var = FALSE
  /\ excel_dosya_eslesmeleri = <<>>
  /\ secili_mix_kodlari = {}
  /\ mode_call = NoCall
  /\ PANDAS_AVAILABLE \in BOOLEAN
  /\ builders = <<>>
  /\ last_completed = NoValue
  /\ idx_entry = [t \in Callers |-> <<>>]
  /\ idx_hist = <<>>

Returned(call, error) ==
  [call |-> call, success |-> error = NoValue, error |-> error]

\* a plausible slip: manual selection is switched on without looking at the
\* Excel mode
set_manual_selection_unguarded(selected_codes) ==
  /\ manuel_secim_var' = TRUE
  /\ secili_mix_kodlari' = SeqRange(selected_codes)
  /\ mode_call' = Returned("set_manual_selection", NoValue)
  /\ UNCHANGED <<excel_import_aktif, excel_dosya_eslesmeleri, PANDAS_AVAILABLE>>
  /\ UNCHANGED <<workers, buildVars, histVars, patVars, scanVars, idxVars, copyVars,
                 placeVars>>

\* WebFileAddManager.set_manual_selection
set_manual_selection(selected_codes) ==
  /\ IF excel_import_aktif
       THEN /\ mode_call' = Returned("set_manual_selection", "Excel import is active")
            /\ UNCHANGED <<manuel_secim_var, secili_mix_kodlari>>
       ELSE /\ manuel_secim_var' = TRUE
            /\ secili_mix_kodlari' = SeqRange(selected_codes)
            /\ mode_call' = Returned("set_manual_selection", NoValue)
  /\ UNCHANGED <<excel_import_aktif, excel_dosya_eslesmeleri, PANDAS_AVAILABLE>>
  /\ UNCHANGED <<workers, buildVars, histVars, patVars, scanVars, idxVars, copyVars,
                 placeVars>>

\* WebFileAddManager.clear_manual_selection
clear_manual_selection ==
  /\ manuel_secim_var' = FALSE
  /\ secili_mix_kodlari' = {}
  /\ mode_call' = Returned("clear_manual_selection", NoValue)
  /\ UNCHANGED <<excel_import_aktif, excel_dosya_eslesmeleri, PANDAS_AVAILABLE>>
  /\ UNCHANGED <<workers, buildVars, histVars, patVars, scanVars, idxVars, copyVars,
                 placeVars>>

\* WebFileAddManager.excel_mix_import: refused without pandas and in manual
\* mode; an unreadable sheet, a missing or empty target folder end it before
\* anything is touched; from there on the stored mappings are cleared, filled
\* from the sheet, and the Excel mode is switched on
excel_mix_import(outcome, dosya_mix_eslesmesi) ==
  /\ IF ~PANDAS_AVAILABLE
       THEN /\ mode_call' = Returned("excel_mix_import", "Pandas library not available")
            /\ UNCHANGED <<excel_import_aktif, excel_dosya_eslesmeleri>>
     ELSE IF manuel_secim_var
       THEN /\ mode_call' = Returned("excel_mix_import", "Manual selection is active")
            /\ UNCHANGED <<excel_import_aktif, excel_dosya_eslesmeleri>>
     ELSE IF outcome \in {"unreadable", "no folder", "no files"}
       THEN /\ mode_call' = Returned("excel_mix_import", outcome)
            /\ UNCHANGED <<excel_import_aktif, excel_dosya_eslesmeleri>>
     ELSE IF outcome = "fails midway"
       THEN /\ excel_dosya_eslesmeleri' = <<>>
            /\ mode_call' = Returned("excel_mix_import", "Error reading Excel file")
            /\ UNCHANGED excel_import_aktif
     ELSE /\ excel_dosya_eslesmeleri' = dosya_mix_eslesmesi
          /\ excel_import_aktif' = TRUE
          /\ mode_call' = Returned("excel_mix_import", NoValue)
  /\ UNCHANGED <<manuel_secim_var, secili_mix_kodlari, PANDAS_AVAILABLE>>
  /\ UNCHANGED <<workers, buildVars, histVars, patVars, scanVars, idxVars, copyVars,
                 placeVars>>

\* WebFileAddManager.excel_import_temizle
excel_import_temizle ==
  /\ excel_import_aktif' = FALSE
  /\ excel_dosya_eslesmeleri' = <<>>
  /\ mode_call' = Returned("excel_import_temizle", NoValue)
  /\ UNCHANGED <<manuel_secim_var, secili_mix_kodlari, PANDAS_AVAILABLE>>
  /\ UNCHANGED <<workers, buildVars, histVars, patVars, scanVars, idxVars, copyVars,
                 placeVars>>

ModeNext ==
  \/ \E selected_codes \in CodeLists : set_manual_selection(selected_codes)
  \/ clear_manual_selection
  \/ \E outcome \in ImportOutcomes, m \in ExcelMappings : excel_mix_import(outcome, m)
  \/ excel_import_temizle

SpecMode == ModeInit /\ [][ModeNext]_vars

\* the call of this step would enable one mode while the other is active
EnablesWhileOtherActive ==
  \/ mode_call'.call = "set_manual_selection" /\ excel_import_aktif
  \/ mode_call'.call = "excel_mix_import" /\ manuel_secim_var

\* C29: Excel-import mode and manual-selection mode are mutually exclusive:
\* after any sequence of set_manual_selection, clear_manual_selection,
\* excel_mix_import and excel_import_temizle calls the two flags are never both
\* true, and a call that would enable one mode while the other is active
\* returns an error and leaves both flags, the mappings and the selection unchanged
C29_ModesExclusive ==
  /\ [](~(excel_import_aktif /\ manuel_secim_var))
  /\ [][EnablesWhileOtherActive =>
          /\ ~mode_call'.success
          /\ UNCHANGED <<excel_import_aktif, manuel_secim_var, excel_dosya_eslesmeleri,
                         secili_mix_kodlari>>]_vars

\* an import was refused while a manual selection of codes is in force
C29_Witness ==
  /\ manuel_secim_var
  /\ secili_mix_kodlari # {}
  /\ PANDAS_AVAILABLE
  /\ mode_call = Returned("excel_mix_import", "Manual selection is active")

\* -------------------------------- two scans on the one scan manager
\* app.py creates one WebScanManager for the process; every POST
\* /api/scan-filenames starts a thread on it, whether or not a scan is running
Users == {"u1", "u2"}

\* target lists of the two requests (the route refuses an empty list): a name
\* the reference tree holds and one it does not hold
UserTargetLists ==
  UNION { [1..k -> { <<"a">>, <<"i", "i", "a">> }] : k \in 1..MaxTargets }

NoScanResult ==
  [matched_files |-> <<>>, non_matched_files |-> <<>>, total_scanned |-> 0,
   matched_groups |-> 0, matched_total |-> 0, non_matched_count |-> 0,
   match_percentage |-> 0]

TwoScansInit ==
  /\ PatIdle
  /\ IdxIdle
  /\ CopyIdle
  /\ PlaceIdle
  /\ ref_walk = << [dir |-> "d1", name |-> <<"a">>] >>
  /\ scan_sections = <<>>
  /\ file_info_list = <<>>
  /\ scan_pc = "off"
  /\ is_cancelled = FALSE
  /\ ana_dosya_isimleri = {}
  /\ ana_dosya_mapping = <<>>
  /\ ana_dosya_patterns = <<>>
  /\ scan_i = 0
  /\ eslesen_dosyalar = <<>>
  /\ non_matched_files = <<>>
  /\ matched_files = <<>>
  /\ progress = ProgressInit
  /\ workers \in [Users -> { [pc |-> "idle", targets |-> l, i |-> 0, eslesen |-> <<>>,
                              result |-> NoScanResult] : l \in UserTargetLists }]
  /\ excel_import_aktif = FALSE
  /\ manuel_secim_var = FALSE
  /\ excel_dosya_eslesmeleri = <<>>
  /\ secili_mix_kodlari = {}
  /\ mode_call = NoCall
  /\ PANDAS_AVAILABLE = TRUE
  /\ builders = <<>>
  /\ last_completed = NoValue
  /\ idx_entry = [t \in Callers |-> <<>>]
  /\ idx_hist = <<>>

\* the index a worker thread builds for itself (a local of the thread)
WorkerIndex == index_main_folder_fast(ref_walk, <<>>)

\* scan_filenames_only called for user u: the manager is reset and the thread started
WorkerScan(u) ==
  /\ workers[u].pc = "idle"
  /\ progress' = clear_logs(progress)
  /\ is_cancelled' = FALSE
  /\ workers' = [workers EXCEPT ![u].pc = "started"]
  /\ UNCHANGED <<ref_walk, scan_sections, file_info_list, scan_pc, ana_dosya_isimleri,
                 ana_dosya_mapping, ana_dosya_patterns, scan_i, eslesen_dosyalar,
                 non_matched_files, matched_files, modeVars, buildVars, histVars,
                 patVars, idxVars, copyVars, placeVars>>

\* _scan_filenames_thread of u up to the loop: the manager's result lists are
\* emptied, the thread's own eslesen_dosyalar starts empty
WorkerIndexed(u) ==
  /\ workers[u].pc = "started"
  /\ non_matched_files' = <<>>
  /\ matched_files' = <<>>
  /\ progress' = [progress EXCEPT !.scan_mode = "filenames_only", !.percentage = 10,
                                  !.current = 0, !.total = Len(workers[u].targets),
                                  !.status = "Starting filename comparison..."]
  /\ workers' = [workers EXCEPT ![u].pc = "compare", ![u].i = 0, ![u].eslesen = <<>>]
  /\ UNCHANGED <<ref_walk, scan_sections, file_info_list, scan_pc, is_cancelled,
                 ana_dosya_isimleri, ana_dosya_mapping, ana_dosya_patterns, scan_i,
                 eslesen_dosyalar, modeVars, buildVars, histVars,
                 patVars, idxVars, copyVars, placeVars>>

\* one iteration of u's comparison loop
WorkerCompare(u) ==
  /\ workers[u].pc = "compare"
  /\ workers[u].i < Len(workers[u].targets)
  /\ ~is_cancelled
  /\ LET toplam == Len(workers[u].targets)
         filename == workers[u].targets[workers[u].i + 1]
         g == GatherAll(filename, WorkerIndex.isimleri, WorkerIndex.mapping,
                        WorkerIndex.patterns)
     IN /\ progress' = [progress EXCEPT
                          !.percentage = (((workers[u].i + 1) * 80) \div Max(1, toplam)) + 10,
                          !.current = workers[u].i + 1, !.total = toplam,
                          !.status = "Comparing"]
        /\ IF g.match_locations # <<>>
             THEN /\ workers' = [workers EXCEPT
                                   ![u].i = @ + 1,
                                   ![u].eslesen = Append(@, MatchRecord(filename, g))]
                  /\ matched_files' = AddMatchedFiles(matched_files, g.match_locations)
                  /\ UNCHANGED non_matched_files
             ELSE /\ workers' = [workers EXCEPT ![u].i = @ + 1]
                  /\ non_matched_files' = Append(non_matched_files, NonMatchedEntry(filename))
                  /\ UNCHANGED matched_files
  /\ UNCHANGED <<ref_walk, scan_sections, file_info_list, scan_pc, is_cancelled,
                 ana_dosya_isimleri, ana_dosya_mapping, ana_dosya_patterns, scan_i,
                 eslesen_dosyalar, modeVars, buildVars, histVars,
                 patVars, idxVars, copyVars, placeVars>>

\* after u's loop: the metrics, the report, set_completed; result is what the
\* manager holds for the operation at that moment
WorkerFinalize(u) ==
  /\ workers[u].pc = "compare"
  /\ workers[u].i = Len(workers[u].targets)
  /\ \E log_ok \in BOOLEAN :
       LET target_files_count == Len(workers[u].targets)
           unique_matched_files == Cardinality(UniqueTargetFiles(workers[u].eslesen))
           total_individual_matches == SumMatchTypes(workers[u].eslesen)
           match_percentage == MatchPercentage(unique_matched_files, target_files_count)
           non_matched_count == Len(non_matched_files)
           p1 == [progress EXCEPT !.percentage = 95,
                                  !.status = "Finalizing filename-only results...",
                                  !.total_scanned = target_files_count,
                                  !.matched_groups = unique_matched_files,
                                  !.matched_total = total_individual_matches,
                                  !.non_matched_count = non_matched_count,
                                  !.match_percentage = match_percentage,
                                  !.scan_mode = "filenames_only"]
           p2 == create_log_file(p1, log_ok)
       IN /\ progress' = set_completed(p2)
          /\ workers' = [workers EXCEPT
                           ![u].pc = "done",
                           ![u].result = [matched_files |-> matched_files,
                                          non_matched_files |-> non_matched_files,
                                          total_scanned |-> target_files_count,
                                          matched_groups |-> unique_matched_files,
                                          matched_total |-> total_individual_matches,
                                          non_matched_count |-> non_matched_count,
                                          match_percentage |-> match_percentage]]
  /\ UNCHANGED <<ref_walk, scan_sections, file_info_list, scan_pc, is_cancelled,
                 ana_dosya_isimleri, ana_dosya_mapping, ana_dosya_patterns, scan_i,
                 eslesen_dosyalar, non_matched_files, matched_files, modeVars, buildVars,
                 histVars, patVars, idxVars, copyVars, placeVars>>

TwoScansNext ==
  \/ \E u \in Users : WorkerScan(u)
  \/ \E u \in Users : WorkerIndexed(u)
  \/ \E u \in Users : WorkerCompare(u)
  \/ \E u \in Users : WorkerFinalize(u)

SpecTwoScans == TwoScansInit /\ [][TwoScansNext]_vars

\* what a scan of the target list alone leaves: the loop run over the targets
\* with nobody else on the manager
RECURSIVE AloneLoop(_, _)
AloneLoop(targets, acc) ==
  IF targets = <<>> THEN acc
  ELSE LET g == GatherAll(Head(targets), WorkerIndex.isimleri, WorkerIndex.mapping,
                          WorkerIndex.patterns)
       IN AloneLoop(Tail(targets),
            IF g.match_locations # <<>>
              THEN [acc EXCEPT !.eslesen = Append(@, MatchRecord(Head(targets), g)),
                               !.matched_files = AddMatchedFiles(@, g.match_locations)]
              ELSE [acc EXCEPT !.non_matched_files =
                                 Append(@, NonMatchedEntry(Head(targets)))])

AloneResult(targets) ==
  LET r == AloneLoop(targets, [eslesen |-> <<>>, matched_files |-> <<>>,
                               non_matched_files |-> <<>>])
      unique_matched_files == Cardinality(UniqueTargetFiles(r.eslesen))
  IN [matched_files |-> r.matched_files,
      non_matched_files |-> r.non_matched_files,
      total_scanned |-> Len(targets),
      matched_groups |-> unique_matched_files,
      matched_total |-> SumMatchTypes(r.eslesen),
      non_matched_count |-> Len(r.non_matched_files),
      match_percentage |-> MatchPercentage(unique_matched_files, Len(targets))]

\* C22: two scans that run concurrently share no mutable state: whatever the
\* interleaving of their threads, the matched list, the non-matched list and
\* the metrics of each finished scan are those its own target list and
\* reference index give
C22_ScansShareNothing ==
  \A u \in Users :
    workers[u].pc = "done" => workers[u].result = AloneResult(workers[u].targets)

====
